---- MODULE Spec2Model ----
(***************************************************************************)
(* Model of the web-search agent's memory and service layer                *)
(* (src/agents/web_search_agent/agent.py and service.py).                  *)
(*                                                                         *)
(* Spec is one HierarchicalMemory and its file, SpecUrl one URLTracker,    *)
(* SpecService one WebSearchService with its callers and the chat model,   *)
(* SpecCleanup the service with the cleanup task, SpecRouter tool_router   *)
(* on transcripts of (role, text) pairs, SpecGraph one run of the compiled *)
(* graph, node by node (SpecGraphLive: with every node that can run        *)
(* running), SpecFeedback the service with store_feedback, SpecRace search *)
(* calls on two threads statement by statement, SpecSweep a search call    *)
(* and the cleanup thread.                                                 *)
(*                                                                         *)
(* Texts are sequences of words (tokens separated by single spaces in the  *)
(* Python string).  A keyword of one word matches by substring, as         *)
(* Python's `in` does, through the table InsideWord; a keyword of several  *)
(* words matches a contiguous run of words.  The vocabulary of the model   *)
(* holds no word of which a phrase's first word is a proper suffix or its  *)
(* last word a proper prefix, so this is what `in` computes on these texts.*)
(***************************************************************************)
EXTENDS Integers, Sequences, FiniteSets, TLC

VARIABLES
    clock,      \* the wall clock read by datetime.now()
    mem,        \* the HierarchicalMemory object under test
    file,       \* the content of the memory file written by save_to_file
    ops,        \* number of operations applied so far
    saved,      \* the contents of the memory when the file was written
    last,       \* what the last operation was and what it returned
    tracker,    \* URLTracker.conversations
    url_ops,    \* number of URLTracker calls made so far
    url_last,   \* the last URLTracker call and the list it found
    initialised,            \* whether the service has its agent and graph
    hierarchical_memories,  \* service.hierarchical_memories
    active_conversations,   \* service.active_conversations
    agent_url_tracker,      \* agent.url_tracker.conversations
    memory_store,           \* the files of MEMORY_DIR
    uuid_count,             \* number of uuid4() values drawn so far
    svc_ops,                \* number of service calls made so far
    returned,               \* the last service call and what it returned
    router_state,           \* the graph state handed to tool_router
    routed,                 \* the last tool_router call and what it returned
    graph_run,              \* a run of the compiled graph
    run_llm,                \* what the chat model and the tools do in that run
    threads,                \* the search calls in progress, one per thread
    objects,                \* the HierarchicalMemory objects of the process
    shared,                 \* the dictionaries and files the threads share
    issued                  \* the calls issued so far

memVars == <<mem, file, ops, saved, last>>

urlVars == <<tracker, url_ops, url_last>>

svcVars == <<initialised, hierarchical_memories, active_conversations,
             agent_url_tracker, memory_store, uuid_count, svc_ops, returned>>

rtrVars == <<router_state, routed>>

graphVars == <<graph_run, run_llm>>

thrVars == <<threads, objects, shared, issued>>

notMemVars == <<urlVars, svcVars, rtrVars, graphVars, thrVars>>

notUrlVars == <<memVars, svcVars, rtrVars, graphVars, thrVars>>

notSvcVars == <<memVars, urlVars, rtrVars, graphVars, thrVars>>

notRtrVars == <<memVars, urlVars, svcVars, graphVars, thrVars>>

notGraphVars == <<memVars, urlVars, svcVars, rtrVars, thrVars>>

notThrVars == <<memVars, urlVars, svcVars, rtrVars, graphVars>>

vars == <<clock, memVars, urlVars, svcVars, rtrVars, graphVars, thrVars>>

\* no search call is in progress on a thread
ThrIdle ==
    /\ threads = <<>>
    /\ objects = <<>>
    /\ shared = <<>>
    /\ issued = [n |-> 0, overlapped |-> FALSE]

-----------------------------------------------------------------------------
(* Bounds of the model *)

MaxOps == 5
MaxUrlOps == 4
ModelCapacity == 2
ModelSinkSize == 1

-----------------------------------------------------------------------------
(* Generic helpers *)

Range(s) == {s[i] : i \in DOMAIN s}

Min(a, b) == IF a < b THEN a ELSE b

Max(a, b) == IF a > b THEN a ELSE b

\* Python dict.update / {**a, **b}: the right operand wins
Update(d, e) == e @@ d

\* JSON-like values carried by context/metadata and the user profile: a
\* string is one text, a list holds texts, a numlist holds numbers (as texts).
Str(text) == [kind |-> "str", items |-> <<text>>]

List(texts) == [kind |-> "list", items |-> texts]

NumList(texts) == [kind |-> "numlist", items |-> texts]

\* True and False
Bool(b) == [kind |-> "bool", items |-> IF b THEN <<<<"True">>>> ELSE <<>>]

-----------------------------------------------------------------------------
(* Text matching: str.lower(), `keyword in text` *)

LowerWord(w) ==
    CASE w = "My" -> "my"
      [] w = "Alex" -> "alex"
      [] w = "Remember" -> "remember"
      [] w = "Im" -> "im"
      [] w = "I" -> "i"
      [] w = "Physics" -> "physics"
      [] w = "Paper" -> "paper"
      [] OTHER -> w

Lower(text) == [i \in DOMAIN text |-> LowerWord(text[i])]

\* <<k, w>>: keyword k occurs inside the (lower-case) word w of the vocabulary
InsideWord ==
    { <<"math", "mathematics">>, <<"art", "start">>, <<"story", "history">>,
      <<"new", "news">>, <<"new", "renewable">>,
      <<"http", "https">>, <<"http", "https://u1">>, <<"http", "https://x.org">>,
      <<"https", "https://u1">>, <<"https", "https://x.org">>,
      <<".org", "https://x.org">>,
      <<"www.", "www.example.com">>, <<".com", "www.example.com">> }

SubWord(k, w) == k = w \/ <<k, w>> \in InsideWord

PhraseAt(text, phrase, i) ==
    /\ i + Len(phrase) - 1 <= Len(text)
    /\ \A j \in 1..Len(phrase) : text[i + j - 1] = phrase[j]

\* `phrase in text` for a lower-case text
Contains(text, phrase) ==
    IF Len(phrase) = 1
    THEN \E i \in DOMAIN text : SubWord(phrase[1], text[i])
    ELSE \E i \in DOMAIN text : PhraseAt(text, phrase, i)

ContainsAny(text, phrases) == \E p \in phrases : Contains(text, p)

-----------------------------------------------------------------------------
(* datetime: a time in whole units and the microsecond field, which        *)
(* isoformat() leaves out when it is zero                                  *)

Now(c) == [t |-> c, us |-> c % 2]

isoformat(d) == IF d.us = 0 THEN <<d.t>> ELSE <<d.t, d.us>>

fromisoformat_seconds(s) == [t |-> s[1], us |-> 0]

fromisoformat(s) == IF Len(s) = 1 THEN [t |-> s[1], us |-> 0]
                                   ELSE [t |-> s[1], us |-> s[2]]

-----------------------------------------------------------------------------
(* MemoryPage *)

MemoryPage(content, metadata, now) ==
    [content |-> content, metadata |-> metadata, created_at |-> now,
     last_accessed |-> now, access_count |-> 0]

\* access() that leaves the count as it is
access_keeps_count(page, now) == [page EXCEPT !.last_accessed = now]

access(page, now) ==
    [page EXCEPT !.last_accessed = now, !.access_count = @ + 1]

to_dict(page) ==
    [content |-> page.content, metadata |-> page.metadata,
     created_at |-> isoformat(page.created_at),
     last_accessed |-> isoformat(page.last_accessed),
     access_count |-> page.access_count]

from_dict(data) ==
    [content |-> data.content, metadata |-> data.metadata,
     created_at |-> fromisoformat(data.created_at),
     last_accessed |-> fromisoformat(data.last_accessed),
     access_count |-> data.access_count]

-----------------------------------------------------------------------------
(* HierarchicalMemory.  The lists hold references to exchanges; heap maps  *)
(* a reference to the (user_page, ai_page) pair it denotes, so that one    *)
(* exchange stored under several topics and as an attention sink is one    *)
(* object, as in Python.  external_memory is a dict in insertion order: a  *)
(* sequence of [topic, exchanges].                                         *)

\* recency_weight 0.6 and relevance_threshold 0.3, in tenths
RecencyWeightTenths == 6

RelevanceThresholdTenths == 3

DefaultConfig ==
    [main_memory_capacity |-> ModelCapacity,
     attention_sink_size |-> ModelSinkSize,
     recency_weight |-> RecencyWeightTenths,
     relevance_threshold |-> RelevanceThresholdTenths]

NewStats ==
    [total_exchanges |-> 0, pages |-> 0, retrievals |-> 0,
     page_ins |-> 0, page_outs |-> 0]

HierarchicalMemory(config) ==
    [config |-> config,
     main_memory |-> <<>>,
     external_memory |-> <<>>,
     attention_sinks |-> <<>>,
     user_profile |-> <<>>,
     stats |-> NewStats,
     heap |-> <<>>]

academic_subjects ==
    << <<"math">>, <<"mathematics">>, <<"algebra">>, <<"calculus">>,
       <<"geometry">>, <<"statistics">>, <<"physics">>, <<"chemistry">>,
       <<"biology">>, <<"anatomy">>, <<"ecology">>, <<"genetics">>,
       <<"history">>, <<"geography">>, <<"civics">>,
       <<"political", "science">>, <<"economics">>, <<"literature">>,
       <<"writing">>, <<"grammar">>, <<"language">>, <<"linguistics">>,
       <<"computer", "science">>, <<"programming">>, <<"coding">>,
       <<"algorithms">>, <<"psychology">>, <<"sociology">>,
       <<"anthropology">>, <<"philosophy">>, <<"art">>, <<"music">>,
       <<"theater">>, <<"film">>, <<"design">> >>

MathTerms == { <<"math">>, <<"equation">>, <<"number">>, <<"calculation">> }

ScienceTerms == { <<"science">>, <<"experiment">>, <<"theory">>, <<"natural">> }

HistoryTerms == { <<"history">>, <<"past">>, <<"century">>, <<"ancient">>,
                  <<"war">>, <<"civilization">> }

LiteratureTerms == { <<"book">>, <<"novel">>, <<"story">>, <<"author">>,
                     <<"write">>, <<"essay">> }

\* The subjects of academic_subjects found in the text, in list order
FoundSubjects(message) ==
    SelectSeq(academic_subjects, LAMBDA s : Contains(Lower(message), s))

_extract_topics(message) ==
    LET message_lower == Lower(message)
        found_topics == FoundSubjects(message)
    IN  IF found_topics # <<>> THEN found_topics
        ELSE IF ContainsAny(message_lower, MathTerms) THEN << <<"mathematics">> >>
        ELSE IF ContainsAny(message_lower, ScienceTerms) THEN << <<"science">> >>
        ELSE IF ContainsAny(message_lower, HistoryTerms) THEN << <<"history">> >>
        ELSE IF ContainsAny(message_lower, LiteratureTerms) THEN << <<"literature">> >>
        ELSE << <<"general">> >>

important_keywords ==
    { <<"my", "name", "is">>, <<"i", "am">>, <<"i'm">>, <<"my", "goal">>,
      <<"my", "learning">>, <<"i", "want", "to">>, <<"i", "need", "to">>,
      <<"i", "prefer">>, <<"my", "background">>, <<"my", "major">>,
      <<"my", "field">>, <<"remember", "this">>, <<"important">> }

is_important(content) == ContainsAny(Lower(content), important_keywords)

_check_attention_sink_keep_all(m, exchange) ==
    IF is_important(m.heap[exchange].user.content)
    THEN [m EXCEPT !.attention_sinks = Append(@, exchange)]
    ELSE m

\* the check that keeps the oldest sinks and drops the newcomer
_check_attention_sink_keep_oldest(m, exchange) ==
    IF is_important(m.heap[exchange].user.content)
    THEN LET appended == Append(m.attention_sinks, exchange)
         IN  [m EXCEPT !.attention_sinks =
                 IF Len(appended) > m.config.attention_sink_size
                 THEN SubSeq(appended, 1, Len(appended) - 1) ELSE appended]
    ELSE m

_check_attention_sink_candidate(m, exchange) ==
    IF is_important(m.heap[exchange].user.content)
    THEN LET appended == Append(m.attention_sinks, exchange)
         IN  [m EXCEPT !.attention_sinks =
                 IF Len(appended) > m.config.attention_sink_size
                 THEN Tail(appended) ELSE appended]
    ELSE m

\* self.external_memory[topic].append(exchange), creating the list if absent
StoreUnder(ext, topic, exchange) ==
    IF \E i \in DOMAIN ext : ext[i].topic = topic
    THEN [i \in DOMAIN ext |->
            IF ext[i].topic = topic
            THEN [ext[i] EXCEPT !.exchanges = Append(@, exchange)]
            ELSE ext[i]]
    ELSE Append(ext, [topic |-> topic, exchanges |-> <<exchange>>])

StoreUnderFirst(ext, topics, exchange) ==
    StoreUnder(ext, Head(topics), exchange)

RECURSIVE StoreUnderAll(_, _, _)
StoreUnderAll(ext, topics, exchange) ==
    IF topics = <<>> THEN ext
    ELSE StoreUnderAll(StoreUnder(ext, Head(topics), exchange),
                       Tail(topics), exchange)

\* _page_out taking the newest exchange instead of the oldest
_page_out_newest(m) ==
    LET newest_exchange == m.main_memory[Len(m.main_memory)]
        topics == _extract_topics(m.heap[newest_exchange].user.content)
        stored == [m EXCEPT
                     !.main_memory = SubSeq(@, 1, Len(@) - 1),
                     !.external_memory = StoreUnderAll(@, topics, newest_exchange),
                     !.stats.pages = @ + 1,
                     !.stats.page_outs = @ + 1]
    IN  _check_attention_sink_candidate(stored, newest_exchange)

_page_out(m) ==
    LET oldest_exchange == Head(m.main_memory)
        topics == _extract_topics(m.heap[oldest_exchange].user.content)
        stored == [m EXCEPT
                     !.main_memory = Tail(@),
                     !.external_memory = StoreUnderAll(@, topics, oldest_exchange),
                     !.stats.pages = @ + 1,
                     !.stats.page_outs = @ + 1]
    IN  _check_attention_sink_candidate(stored, oldest_exchange)

-----------------------------------------------------------------------------
(* _update_user_profile: the regular expressions, on words.  i'?m is the   *)
(* word "im" or "i'm"; ([a-zA-Z\s]+) is the longest run of alphabetic      *)
(* words, which must not be empty.                                         *)

ImWords == {"im", "i'm"}

NonAlphaWords == {"2024", "i'm"}

Alpha(w) == w \notin NonAlphaWords

RECURSIVE AlphaRunEnd(_, _)
\* index of the last word of the alphabetic run that starts at i (i-1: empty)
AlphaRunEnd(text, i) ==
    IF i <= Len(text) /\ Alpha(text[i]) THEN AlphaRunEnd(text, i + 1) ELSE i - 1

PrefixAt(text, pre, i) ==
    /\ i + Len(pre) - 1 <= Len(text)
    /\ \A j \in 1..Len(pre) : text[i + j - 1] \in pre[j]

\* positions of an " at " that splits the run starting at s into two
\* non-empty groups
AtSplits(text, s) ==
    {k \in (s + 1)..(AlphaRunEnd(text, s) - 1) : text[k] = "at"}

SetMax(S) == CHOOSE x \in S : \A y \in S : y <= x

SetMin(S) == CHOOSE x \in S : \A y \in S : x <= y

education_patterns ==
    << [pre |-> <<ImWords, {"in"}>>, shape |-> "alt",
        alts |-> {"elementary", "middle", "high"}, post |-> "school",
        key |-> "education_level"],
       [pre |-> <<ImWords, {"a"}>>, shape |-> "alt",
        alts |-> {"freshman", "sophomore", "junior", "senior", "college",
                  "university", "graduate", "phd"}, post |-> "student",
        key |-> "education_level"],
       [pre |-> <<ImWords, {"studying"}>>, shape |-> "run_at",
        alts |-> {}, post |-> "", key |-> "field_of_study"],
       [pre |-> <<{"i"}, {"want"}, {"to"}, {"learn"}, {"about"}>>,
        shape |-> "run", alts |-> {}, post |-> "",
        key |-> "learning_interests"],
       [pre |-> <<ImWords, {"interested"}, {"in"}>>, shape |-> "run",
        alts |-> {}, post |-> "", key |-> "interests"],
       [pre |-> <<{"my"}, {"name"}, {"is"}>>, shape |-> "run",
        alts |-> {}, post |-> "", key |-> "name"],
       [pre |-> <<{"call"}, {"me"}>>, shape |-> "run",
        alts |-> {}, post |-> "", key |-> "name"] >>

MatchAt(text, pat, i) ==
    LET g == i + Len(pat.pre)
    IN  /\ PrefixAt(text, pat.pre, i)
        /\ CASE pat.shape = "alt" ->
                  /\ g + 1 <= Len(text)
                  /\ text[g] \in pat.alts
                  /\ text[g + 1] = pat.post
             [] pat.shape = "run" -> AlphaRunEnd(text, g) >= g
             [] OTHER -> AtSplits(text, g) # {}

\* re.search: is there a match, and group(1).strip() of the leftmost one
Matches(text, pat) == \E i \in DOMAIN text : MatchAt(text, pat, i)

Group1(text, pat) ==
    LET i == SetMin({k \in DOMAIN text : MatchAt(text, pat, k)})
        g == i + Len(pat.pre)
    IN  CASE pat.shape = "alt" -> <<text[g]>>
          [] pat.shape = "run" -> SubSeq(text, g, AlphaRunEnd(text, g))
          [] OTHER -> SubSeq(text, g, SetMax(AtSplits(text, g)) - 1)

ListKeys == {"field_of_study", "learning_interests", "interests"}

\* `value not in container` followed by container.append(value): what it
\* does to a profile entry of each kind.  A str has no append.
AppendIfAbsent(entry, value) ==
    CASE entry.kind \in {"list", "numlist"} ->
            [raised |-> FALSE,
             entry |-> IF value \in Range(entry.items) THEN entry
                       ELSE [entry EXCEPT !.items = Append(@, value)]]
      [] entry.kind = "str" ->
            [raised |-> ~Contains(entry.items[1], value), entry |-> entry]
      [] OTHER -> [raised |-> TRUE, entry |-> entry]

\* One pattern of the loop applied to the profile
ApplyPattern(profile, message_lower, pat) ==
    IF ~Matches(message_lower, pat) THEN [raised |-> FALSE, profile |-> profile]
    ELSE LET value == Group1(message_lower, pat)
         IN  IF pat.key \in ListKeys
             THEN LET created == IF pat.key \in DOMAIN profile THEN profile
                                 ELSE Update(profile, pat.key :> List(<<>>))
                      r == AppendIfAbsent(created[pat.key], value)
                  IN  [raised |-> r.raised,
                       profile |-> Update(created, pat.key :> r.entry)]
             ELSE [raised |-> FALSE,
                   profile |-> Update(profile, pat.key :> Str(value))]

RECURSIVE ApplyPatterns(_, _, _)
ApplyPatterns(profile, message_lower, pats) ==
    IF pats = <<>> THEN [raised |-> FALSE, profile |-> profile]
    ELSE LET r == ApplyPattern(profile, message_lower, Head(pats))
         IN  IF r.raised THEN r
             ELSE ApplyPatterns(r.profile, message_lower, Tail(pats))

\* key.startswith("user_") and key[5:]
UserPrefixed == {"user_interests", "user_tags", "user_name"}

StripUser(key) ==
    CASE key = "user_interests" -> "interests"
      [] key = "user_tags" -> "tags"
      [] OTHER -> "name"

MergeUserMetadata(profile, metadata) ==
    LET keys == DOMAIN metadata \cap UserPrefixed
    IN  [k \in DOMAIN profile \cup {StripUser(key) : key \in keys} |->
            IF \E key \in keys : StripUser(key) = k
            THEN metadata[CHOOSE key \in keys : StripUser(key) = k]
            ELSE profile[k]]

_update_user_profile(m, message, metadata) ==
    LET r == ApplyPatterns(m.user_profile, Lower(message), education_patterns)
    IN  IF r.raised
        THEN [raised |-> TRUE, mem |-> [m EXCEPT !.user_profile = r.profile]]
        ELSE [raised |-> FALSE,
              mem |-> [m EXCEPT !.user_profile =
                          MergeUserMetadata(r.profile, metadata)]]

NeedsPageOutAtCapacity(m) ==
    Len(m.main_memory) >= m.config.main_memory_capacity

\* len(self.main_memory) > self.config["main_memory_capacity"]
NeedsPageOut(m) == Len(m.main_memory) > m.config.main_memory_capacity

\* add_exchange: [mem: the memory afterwards, raised: whether it raised,
\* ret: the value returned]
add_exchange(m, user_message, ai_message, user_metadata, now) ==
    LET user_page == MemoryPage(user_message,
                        Update("type" :> Str(<<"user_message">>) @@
                               "timestamp" :> Str(isoformat(now)), user_metadata),
                        now)
        ai_page == MemoryPage(ai_message,
                        "type" :> Str(<<"ai_message">>) @@
                        "timestamp" :> Str(isoformat(now)),
                        now)
        exchange == Len(m.heap) + 1
        appended == [m EXCEPT
                       !.heap = Append(@, [user |-> user_page, ai |-> ai_page]),
                       !.main_memory = Append(@, exchange)]
        paged == IF NeedsPageOut(appended)
                 THEN _page_out(appended) ELSE appended
        counted == [paged EXCEPT !.stats.total_exchanges = @ + 1]
        r == _update_user_profile(counted, user_message, user_metadata)
    IN  [mem |-> r.mem, raised |-> r.raised, ret |-> Len(r.mem.main_memory)]

-----------------------------------------------------------------------------
(* retrieve_relevant_context.  _get_embedding returns None, so             *)
(* _search_memory_segment always takes the keyword branch.                 *)

stopwords == {"a", "an", "the", "and", "or", "but", "is", "are", "in", "to",
              "for", "with", "on", "at"}

\* the words of the vocabulary with at most two characters
ShortWords == {"a", "i", "m", "an", "or", "is", "in", "to", "on", "at", "my",
               "im", "me", "ok"}

\* re.findall(r'\b\w+\b', ...): the apostrophe splits a word
WordsOf(w) == IF w = "i'm" THEN <<"i", "m">> ELSE <<w>>

RECURSIVE FindWords(_)
FindWords(text) ==
    IF text = <<>> THEN <<>> ELSE WordsOf(Head(text)) \o FindWords(Tail(text))

_extract_keywords(text) ==
    SelectSeq(FindWords(Lower(text)),
              LAMBDA w : w \notin stopwords /\ w \notin ShortWords)

\* sum(1 for kw in keywords if kw in content.lower())
MatchCount(keywords, content) ==
    Cardinality({i \in DOMAIN keywords :
                    Contains(Lower(content), <<keywords[i]>>)})

\* combined_score as a fraction: (1 - w) * match_count / len(keywords)
\* + w / (1 + time_diff / 24), with w in tenths and time_diff in hours
Score(match_count, n_keywords, time_diff, weight) ==
    [num |-> (10 - weight) * match_count * (24 + time_diff)
             + weight * 24 * n_keywords,
     den |-> 10 * n_keywords * (24 + time_diff)]

ScoreLess(a, b) == a.num * b.den < b.num * a.den

RECURSIVE InsertByScore(_, _)
\* place e after every entry whose score is not below its own
InsertByScore(sorted, e) ==
    IF sorted = <<>> THEN <<e>>
    ELSE IF ScoreLess(Head(sorted).score, e.score) THEN <<e>> \o sorted
    ELSE <<Head(sorted)>> \o InsertByScore(Tail(sorted), e)

RECURSIVE SortByScore(_)
\* list.sort(reverse=True, key=score): descending and stable
SortByScore(entries) ==
    IF entries = <<>> THEN <<>>
    ELSE InsertByScore(SortByScore(SubSeq(entries, 1, Len(entries) - 1)),
                       entries[Len(entries)])

RECURSIVE AccessAll(_, _, _)
\* user_page.access(); ai_page.access() for every scored entry in turn
AccessAll(heap, exchanges, now) ==
    IF exchanges = <<>> THEN heap
    ELSE AccessAll([heap EXCEPT ![Head(exchanges)] =
                        [user |-> access(@.user, now), ai |-> access(@.ai, now)]],
                   Tail(exchanges), now)

\* the search that keeps the exchanges without a matching keyword
_search_memory_segment_keep_all(m, query, memory_segment, now) ==
    LET keywords == _extract_keywords(query)
        entry(x) ==
            [exchange |-> x,
             score |-> Score(MatchCount(keywords, m.heap[x].user.content),
                             Len(keywords),
                             now.t - m.heap[x].user.last_accessed.t,
                             m.config.recency_weight)]
        sorted == SortByScore([i \in DOMAIN memory_segment |->
                                  entry(memory_segment[i])])
        scored == [i \in DOMAIN sorted |-> sorted[i].exchange]
    IN  [scored |-> scored, heap |-> AccessAll(m.heap, scored, now)]

\* [scored: the exchanges that matched, best first; heap: the pages afterwards]
_search_memory_segment(m, query, memory_segment, now) ==
    LET keywords == _extract_keywords(query)
        entry(x) ==
            [exchange |-> x,
             score |-> Score(MatchCount(keywords, m.heap[x].user.content),
                             Len(keywords),
                             now.t - m.heap[x].user.last_accessed.t,
                             m.config.recency_weight)]
        matching == SelectSeq(memory_segment,
                        LAMBDA x : MatchCount(keywords, m.heap[x].user.content) # 0)
        sorted == SortByScore([i \in DOMAIN matching |-> entry(matching[i])])
        scored == [i \in DOMAIN sorted |-> sorted[i].exchange]
    IN  [scored |-> scored, heap |-> AccessAll(m.heap, scored, now)]

RetrieveLimit == 3

RECURSIVE CandidateExchanges(_, _)
\* the lists of the query's topics, one after the other
CandidateExchanges(ext, topics) ==
    IF topics = <<>> THEN <<>>
    ELSE LET here == SelectSeq(ext, LAMBDA e : e.topic = Head(topics))
         IN  (IF here = <<>> THEN <<>> ELSE here[1].exchanges)
             \o CandidateExchanges(ext, Tail(topics))

FirstN(s, n) == SubSeq(s, 1, Min(n, Len(s)))

\* [mem: the memory afterwards, ret: the sections of the returned string,
\*  main / external: the exchanges each search scored]
retrieve_relevant_context(m, query, now) ==
    LET from_main == _search_memory_segment(m, query, m.main_memory, now)
        m1 == [m EXCEPT !.heap = from_main.heap]
        candidate_exchanges ==
            CandidateExchanges(m.external_memory, _extract_topics(query))
        from_external == _search_memory_segment(m1, query, candidate_exchanges, now)
        m2 == [m1 EXCEPT !.heap = from_external.heap,
                         !.stats.retrievals = @ + 1]
        lines(title, exchanges) ==
            [title |-> title,
             lines |-> [i \in DOMAIN exchanges |->
                          <<m.heap[exchanges[i]].user.content,
                            m.heap[exchanges[i]].ai.content>>]]
        combined ==
            (IF m.attention_sinks # <<>>
             THEN <<lines("Important Context", m.attention_sinks)>> ELSE <<>>)
            \o (IF from_main.scored # <<>>
                THEN <<lines("Recent Conversation",
                             FirstN(from_main.scored, RetrieveLimit))>>
                ELSE <<>>)
            \o (IF from_external.scored # <<>>
                THEN <<lines("Related Previous Exchanges",
                             FirstN(from_external.scored, RetrieveLimit))>>
                ELSE <<>>)
    IN  [mem |-> m2, ret |-> combined,
         main |-> from_main.scored, external |-> from_external.scored]

-----------------------------------------------------------------------------
(* save_to_file / load_from_file.  The file holds the JSON record; every   *)
(* page is written by to_dict and read back by from_dict, and every        *)
(* occurrence of an exchange in the file becomes an object of its own.     *)

NoFile == [exists |-> FALSE]

PairToDict(heap, x) == [user |-> to_dict(heap[x].user), ai |-> to_dict(heap[x].ai)]

PairFromDict(d) == [user |-> from_dict(d.user), ai |-> from_dict(d.ai)]

memory_data(m) ==
    [main_memory |-> [i \in DOMAIN m.main_memory |->
                         PairToDict(m.heap, m.main_memory[i])],
     external_memory |-> [t \in DOMAIN m.external_memory |->
         [topic |-> m.external_memory[t].topic,
          exchanges |-> [i \in DOMAIN m.external_memory[t].exchanges |->
                           PairToDict(m.heap, m.external_memory[t].exchanges[i])]]],
     attention_sinks |-> [i \in DOMAIN m.attention_sinks |->
                            PairToDict(m.heap, m.attention_sinks[i])],
     user_profile |-> m.user_profile,
     stats |-> m.stats,
     config |-> m.config]

save_to_file(m) == [exists |-> TRUE, data |-> memory_data(m)]

RECURSIVE FlattenExternal(_)
FlattenExternal(ext) ==
    IF ext = <<>> THEN <<>>
    ELSE Head(ext).exchanges \o FlattenExternal(Tail(ext))

\* references base+1 .. base+n for a list of n exchanges read from the file
FreshRefs(base, n) == [i \in 1..n |-> base + i]

RECURSIVE LoadExternal(_, _)
LoadExternal(ext, base) ==
    IF ext = <<>> THEN <<>>
    ELSE <<[topic |-> Head(ext).topic,
            exchanges |-> FreshRefs(base, Len(Head(ext).exchanges))]>>
         \o LoadExternal(Tail(ext), base + Len(Head(ext).exchanges))

load_from_file(f) ==
    LET data == f.data
        fresh == HierarchicalMemory(Update(DefaultConfig, data.config))
        flat == FlattenExternal(data.external_memory)
        dicts == data.main_memory \o flat \o data.attention_sinks
    IN  [fresh EXCEPT
           !.heap = [i \in DOMAIN dicts |-> PairFromDict(dicts[i])],
           !.main_memory = FreshRefs(0, Len(data.main_memory)),
           !.external_memory =
               LoadExternal(data.external_memory, Len(data.main_memory)),
           !.attention_sinks =
               FreshRefs(Len(data.main_memory) + Len(flat),
                         Len(data.attention_sinks)),
           !.user_profile = data.user_profile,
           !.stats = data.stats]

\* A memory with every reference replaced by the pages it denotes: what two
\* memory objects are compared by
Contents(m) ==
    [main_memory |-> [i \in DOMAIN m.main_memory |-> m.heap[m.main_memory[i]]],
     external_memory |-> [t \in DOMAIN m.external_memory |->
         [topic |-> m.external_memory[t].topic,
          exchanges |-> [i \in DOMAIN m.external_memory[t].exchanges |->
                           m.heap[m.external_memory[t].exchanges[i]]]]],
     attention_sinks |-> [i \in DOMAIN m.attention_sinks |->
                            m.heap[m.attention_sinks[i]]],
     user_profile |-> m.user_profile,
     stats |-> m.stats,
     config |-> m.config]

-----------------------------------------------------------------------------
(* Inputs of the memory operations *)

MsgName == <<"My", "name", "is", "Alex">>

MsgMath == <<"mathematics", "and", "physics">>

MsgExperiment == <<"Remember", "this", "experiment">>

MsgArt == <<"im", "interested", "in", "art">>

AiMessage == <<"ok">>

NoMetadata == <<>>

MetaInterests == "user_interests" :> Str(<<"music">>)

\* (user_message, user_metadata) of the add_exchange calls
AddInputs ==
    { <<MsgName, NoMetadata>>, <<MsgMath, NoMetadata>>,
      <<MsgExperiment, NoMetadata>>, <<MsgArt, NoMetadata>>,
      <<MsgMath, MetaInterests>> }

Queries == { MsgMath, <<"my", "experiment">> }

-----------------------------------------------------------------------------
(* Specification Spec: one HierarchicalMemory and its file *)

\* the variables of the service, unused
SvcIdle ==
    /\ initialised = FALSE
    /\ hierarchical_memories = <<>>
    /\ active_conversations = <<>>
    /\ agent_url_tracker = <<>>
    /\ memory_store = <<>>
    /\ uuid_count = 0
    /\ svc_ops = 0
    /\ returned = [op |-> "init"]

\* the variables of the tool router and of the graph run, unused
RtrIdle ==
    /\ router_state = <<>>
    /\ routed = [op |-> "init"]
    /\ graph_run = [node |-> "init"]
    /\ run_llm = <<>>

\* the variables of the URLTracker, unused
UrlIdle ==
    /\ tracker = <<>>
    /\ url_ops = 0
    /\ url_last = [op |-> "init"]

Init ==
    /\ mem = HierarchicalMemory(DefaultConfig)
    /\ clock = 1
    /\ UrlIdle
    /\ ThrIdle
    /\ SvcIdle
    /\ RtrIdle
    /\ file = NoFile
    /\ ops = 0
    /\ saved = Contents(HierarchicalMemory(DefaultConfig))
    /\ last = [op |-> "init", raised |-> FALSE, adds |-> 0, fresh |-> TRUE,
               before |-> HierarchicalMemory(DefaultConfig)]

AddExchange ==
    /\ ops < MaxOps
    /\ \E in \in AddInputs :
          LET r == add_exchange(mem, in[1], AiMessage, in[2], Now(clock))
          IN  /\ mem' = r.mem
              /\ last' = [op |-> "add", raised |-> r.raised, ret |-> r.ret,
                          adds |-> last.adds + 1, fresh |-> last.fresh,
                          before |-> mem, in |-> in]
    /\ clock' = clock + 1
    /\ ops' = ops + 1
    /\ UNCHANGED <<file, saved, notMemVars>>

Retrieve ==
    /\ ops < MaxOps
    /\ \E q \in Queries :
          LET r == retrieve_relevant_context(mem, q, Now(clock))
          IN  /\ mem' = r.mem
              /\ last' = [op |-> "retrieve", raised |-> FALSE,
                          query |-> q, ret |-> r.ret,
                          adds |-> last.adds, fresh |-> last.fresh,
                          before |-> mem]
    /\ clock' = clock + 1
    /\ ops' = ops + 1
    /\ UNCHANGED <<file, saved, notMemVars>>

Save ==
    /\ ops < MaxOps
    /\ file' = save_to_file(mem)
    /\ saved' = Contents(mem)
    /\ last' = [op |-> "save", raised |-> FALSE, adds |-> last.adds,
                fresh |-> last.fresh, before |-> mem]
    /\ clock' = clock + 1
    /\ ops' = ops + 1
    /\ UNCHANGED <<mem, notMemVars>>

Load ==
    /\ ops < MaxOps
    /\ file.exists
    /\ mem' = load_from_file(file)
    /\ last' = [op |-> "load", raised |-> FALSE, adds |-> last.adds,
                fresh |-> FALSE, before |-> mem]
    /\ clock' = clock + 1
    /\ ops' = ops + 1
    /\ UNCHANGED <<file, saved, notMemVars>>

Next == AddExchange \/ Retrieve \/ Save \/ Load

Spec == Init /\ [][Next]_vars

-----------------------------------------------------------------------------
(* Claims about HierarchicalMemory, checked under Spec *)

Capacity == mem.config.main_memory_capacity

\* C1: on a memory that started fresh, right after the N-th add_exchange call
\* len(main_memory) = min(N, capacity) and stats.pages = max(0, N - capacity).
C1_CapacityInvariant ==
    (last.op = "add" /\ last.fresh) =>
        /\ Len(mem.main_memory) = Min(last.adds, Capacity)
        /\ mem.stats.pages = Max(0, last.adds - Capacity)

C1_Witness ==
    /\ last.op = "add" /\ last.fresh
    /\ last.adds = Capacity + 2
    /\ mem.stats.pages = 2

\* C2: in every state reached by add_exchange, retrieve_relevant_context,
\* save_to_file and load_from_file, len(attention_sinks) <= attention_sink_size.
C2_AttentionSinkBound ==
    Len(mem.attention_sinks) <= mem.config.attention_sink_size

\* an important exchange has just been paged out into a full sink list
C2_Witness ==
    /\ last.op = "add"
    /\ mem.stats.pages = last.before.stats.pages + 1
    /\ Len(last.before.attention_sinks) = mem.config.attention_sink_size
    /\ is_important(last.before.heap[Head(last.before.main_memory)].user.content)

\* the add_exchange call that was just applied paged an exchange out
PagedOutNow ==
    /\ last.op = "add"
    /\ mem.stats.pages = last.before.stats.pages + 1

PagedExchange == Head(last.before.main_memory)

PagedText == Lower(mem.heap[PagedExchange].user.content)

\* the topic keywords (academic subjects) the text matches
MatchedSubjects(text) ==
    {s \in Range(academic_subjects) : Contains(text, s)}

\* the lists of external_memory that hold exchange x, by topic
HoldingTopics(m, x) ==
    {m.external_memory[i].topic :
        i \in {j \in DOMAIN m.external_memory :
                  x \in Range(m.external_memory[j].exchanges)}}

Occurrences(list, x) == Cardinality({j \in DOMAIN list : list[j] = x})

\* every list holds x at most once
AtMostOncePerList(m, x) ==
    \A i \in DOMAIN m.external_memory :
        Occurrences(m.external_memory[i].exchanges, x) <= 1

\* the coarse category of a text that matches no academic subject
CoarseCategory(text) ==
    IF ContainsAny(text, MathTerms) THEN <<"mathematics">>
    ELSE IF ContainsAny(text, ScienceTerms) THEN <<"science">>
    ELSE IF ContainsAny(text, HistoryTerms) THEN <<"history">>
    ELSE IF ContainsAny(text, LiteratureTerms) THEN <<"literature">>
    ELSE <<"general">>

\* C3 as stated: a paged-out exchange is appended to exactly k lists, one per
\* topic keyword its user text matches, each once; with no topic keyword
\* matched it is stored under the single topic "general".
C3_TopicFanOutAsStated ==
    PagedOutNow =>
        /\ HoldingTopics(last.before, PagedExchange) = {}
        /\ AtMostOncePerList(mem, PagedExchange)
        /\ HoldingTopics(mem, PagedExchange) =
              IF MatchedSubjects(PagedText) # {} THEN MatchedSubjects(PagedText)
              ELSE { <<"general">> }

\* C3 amended: as above, except that with no topic keyword matched the
\* exchange is stored under exactly one topic: the first coarse category
\* (mathematics, science, history, literature) one of whose terms the text
\* contains, and "general" only when it contains none.
C3_TopicFanOut ==
    PagedOutNow =>
        /\ HoldingTopics(last.before, PagedExchange) = {}
        /\ AtMostOncePerList(mem, PagedExchange)
        /\ HoldingTopics(mem, PagedExchange) =
              IF MatchedSubjects(PagedText) # {} THEN MatchedSubjects(PagedText)
              ELSE { CoarseCategory(PagedText) }

\* an exchange without topic keyword has just been paged out to a coarse
\* category while an exchange with three topic keywords sits in three lists
C3_Witness ==
    /\ PagedOutNow
    /\ MatchedSubjects(PagedText) = {}
    /\ HoldingTopics(mem, PagedExchange) = { <<"science">> }
    /\ \E x \in DOMAIN mem.heap : Cardinality(HoldingTopics(mem, x)) = 3

\* C5: the memory read back by load_from_file has the main_memory,
\* external_memory (topics and order), attention_sinks (content, metadata,
\* created_at, last_accessed, access_count of every page), user_profile,
\* stats and config of the memory that save_to_file wrote.
C5_RoundTrip ==
    last.op = "load" => Contents(mem) = saved

\* a memory with paged-out exchanges, a sink, and timestamps with and
\* without microseconds has been saved and read back
C5_Witness ==
    /\ last.op = "load"
    /\ mem.external_memory # <<>>
    /\ mem.attention_sinks # <<>>
    /\ \E x \in DOMAIN mem.heap : mem.heap[x].user.created_at.us = 0
    /\ \E x \in DOMAIN mem.heap : mem.heap[x].user.created_at.us # 0

-----------------------------------------------------------------------------
(* URLTracker.  conversations maps a conversation id to its list of        *)
(* entries; an entry's "metadata" key may be absent.                       *)

NoDict == <<>>

\* a conversation id is a sequence of parts, so that "c1.json" is c1 followed
\* by .json; the empty (or missing) id has no part
NoId == <<>>

\* the entry that track_url appends
NewEntry(url, source, metadata, now) ==
    [url |-> url, timestamp |-> isoformat(now),
     source |-> IF source = "" THEN "unknown" ELSE source,
     has_metadata |-> metadata # NoDict,
     metadata |-> metadata]

\* entry["metadata"].update(metadata), creating the dict if absent
MergeMetadata(entry, metadata) ==
    IF metadata = NoDict THEN entry
    ELSE [entry EXCEPT !.has_metadata = TRUE,
                       !.metadata = Update(@, metadata)]

track_url_append_always(conversations, conversation_id, url, source, metadata, now) ==
    IF conversation_id = NoId \/ url = "" THEN conversations
    ELSE LET entries == IF conversation_id \in DOMAIN conversations
                        THEN conversations[conversation_id] ELSE <<>>
         IN  Update(conversations,
                    conversation_id :>
                        Append(entries, NewEntry(url, source, metadata, now)))

track_url(conversations, conversation_id, url, source, metadata, now) ==
    IF conversation_id = NoId \/ url = "" THEN conversations
    ELSE LET entries == IF conversation_id \in DOMAIN conversations
                        THEN conversations[conversation_id] ELSE <<>>
             known == {i \in DOMAIN entries : entries[i].url = url}
         IN  Update(conversations,
                    conversation_id :>
                        IF known # {}
                        THEN [entries EXCEPT ![SetMin(known)] =
                                  MergeMetadata(@, metadata)]
                        ELSE Append(entries,
                                    NewEntry(url, source, metadata, now)))

get_urls(conversations, conversation_id) ==
    IF conversation_id \notin DOMAIN conversations THEN <<>>
    ELSE [i \in DOMAIN conversations[conversation_id] |->
             conversations[conversation_id][i].url]

clear(conversations, conversation_id) ==
    IF conversation_id \in DOMAIN conversations
    THEN Update(conversations, conversation_id :> <<>>)
    ELSE conversations

\* (conversation_id, url, source, metadata) of the track_url calls; "" is
\* an empty or missing argument
TrackInputs ==
    { << <<"c1">>, "u1", "wikipedia", NoDict>>,
      << <<"c1">>, "u1", "tavily_search", "title" :> "T1">>,
      << <<"c1">>, "u1", "tavily_search", "title" :> "T2" @@ "snippet" :> "s">>,
      << <<"c1">>, "u2", "", NoDict>>,
      << <<"c2">>, "u1", "", "title" :> "T1">>,
      << NoId, "u1", "wikipedia", NoDict>>,
      << <<"c1">>, "", "wikipedia", NoDict>> }

ClearInputs == { <<"c1">>, <<"c2">> }

\* the variables of the single memory, unused
MemIdle ==
    /\ mem = HierarchicalMemory(DefaultConfig)
    /\ file = NoFile
    /\ ops = 0
    /\ saved = Contents(HierarchicalMemory(DefaultConfig))
    /\ last = [op |-> "init"]

InitUrl ==
    /\ clock = 1
    /\ MemIdle
    /\ SvcIdle
    /\ RtrIdle
    /\ UrlIdle
    /\ ThrIdle

TrackUrl ==
    /\ url_ops < MaxUrlOps
    /\ \E in \in TrackInputs :
          /\ tracker' = track_url(tracker, in[1], in[2], in[3], in[4], Now(clock))
          /\ url_last' = [op |-> "track", conversation_id |-> in[1],
                          url |-> in[2], metadata |-> in[4],
                          before |-> tracker]
    /\ url_ops' = url_ops + 1
    /\ clock' = clock + 1
    /\ UNCHANGED notUrlVars

ClearUrls ==
    /\ url_ops < MaxUrlOps
    /\ \E c \in ClearInputs :
          /\ tracker' = clear(tracker, c)
          /\ url_last' = [op |-> "clear", conversation_id |-> c,
                          url |-> "", metadata |-> NoDict,
                          before |-> tracker]
    /\ url_ops' = url_ops + 1
    /\ clock' = clock + 1
    /\ UNCHANGED notUrlVars

NextUrl == TrackUrl \/ ClearUrls

SpecUrl == InitUrl /\ [][NextUrl]_vars

-----------------------------------------------------------------------------
(* Claims about URLTracker, checked under SpecUrl *)

EntriesOf(conversations, c) ==
    IF c \in DOMAIN conversations THEN conversations[c] ELSE <<>>

\* the last call was track_url with a URL the conversation already held
Retracked ==
    /\ url_last.op = "track"
    /\ url_last.url \in Range(get_urls(url_last.before, url_last.conversation_id))

\* what the claim says the metadata of a re-tracked entry becomes
MergedMetadata(old, new) ==
    [k \in DOMAIN old \cup DOMAIN new |->
        IF k \in DOMAIN new THEN new[k] ELSE old[k]]

\* C4: after any sequence of track_url and clear calls a conversation's list
\* holds at most one entry per URL string; track_url with an already tracked
\* URL merges the new metadata into the existing entry and leaves its
\* timestamp, source and position, and every other entry, unchanged.
C4_UrlDedup ==
    /\ \A c \in DOMAIN tracker :
          \A i, j \in DOMAIN tracker[c] :
              tracker[c][i].url = tracker[c][j].url => i = j
    /\ Retracked =>
          LET old == url_last.before[url_last.conversation_id]
              new == tracker[url_last.conversation_id]
          IN  /\ Len(new) = Len(old)
              /\ \A i \in DOMAIN old :
                    /\ new[i].url = old[i].url
                    /\ new[i].timestamp = old[i].timestamp
                    /\ new[i].source = old[i].source
                    /\ new[i].metadata =
                          IF old[i].url = url_last.url
                          THEN MergedMetadata(old[i].metadata, url_last.metadata)
                          ELSE old[i].metadata

\* a URL tracked earlier, first in a list of two, is tracked again at a later
\* time with metadata that changes one key and adds another
C4_Witness ==
    /\ Retracked
    /\ Len(tracker[url_last.conversation_id]) = 2
    /\ tracker[url_last.conversation_id][1].url = url_last.url
    /\ url_last.before[url_last.conversation_id][1].metadata = ("title" :> "T1")
    /\ tracker[url_last.conversation_id][1].metadata =
          ("title" :> "T2" @@ "snippet" :> "s")

-----------------------------------------------------------------------------
(* The orchestration graph of WebSearchAgent.create_graph.  The graph      *)
(* library keeps one channel per key of State; a node's return value is    *)
(* written key by key into the channels of State and any other key of it   *)
(* is left out; the messages channel merges by add_messages, every other   *)
(* channel keeps the last value written.                                   *)

\* the steps a run may take before the graph library raises
RecursionLimit == 25

AnswerText == <<"the", "answer">>

ToolCallText == <<"let", "me", "look">>

\* the output of a tool, which names a page
ToolOutputText == <<"see", "https://u1">>

ApologyText == <<"Im", "sorry", "I", "encountered", "an", "error">>

NoTool == "None"

\* a (role, content) pair of the transcript, as it is handed to the graph
Pair(p) == [tuple |-> TRUE, type |-> p[1], content |-> p[2],
            tool_calls |-> FALSE, id |-> 0]

HumanMessage(content) ==
    [tuple |-> FALSE, type |-> "human", content |-> content,
     tool_calls |-> FALSE, id |-> 0]

AIMessage(content, tool_calls) ==
    [tuple |-> FALSE, type |-> "ai", content |-> content,
     tool_calls |-> tool_calls, id |-> 0]

ToolMessage(content) ==
    [tuple |-> FALSE, type |-> "tool", content |-> content,
     tool_calls |-> FALSE, id |-> 0]

\* add_messages turns a pair into a message object
convert_to_messages(m) ==
    IF ~m.tuple THEN m
    ELSE IF m.type = "user" THEN HumanMessage(m.content)
         ELSE AIMessage(m.content, FALSE)

\* a message whose id is in left replaces that message; any other is
\* appended under a fresh id
add_message(left, message) ==
    LET m == convert_to_messages(message)
        at == {i \in DOMAIN left : m.id # 0 /\ left[i].id = m.id}
    IN  IF at # {}
        THEN [left EXCEPT ![SetMin(at)] = m]
        ELSE Append(left, [m EXCEPT !.id = Len(left) + 1])

RECURSIVE add_messages(_, _)
\* the reducer of the messages channel: the messages of right, one after
\* the other, each merged into the list that the ones before it left
add_messages(left, right) ==
    IF right = <<>> THEN left
    ELSE CHOOSE result \in
             {add_messages(merged, Tail(right)) :
                  merged \in {add_message(l, Head(right)) : l \in {left}}} :
             TRUE

\* the keys of State
State == {"messages", "context", "memory", "reasoning"}

\* the channels after a node's return value `out` is written
Write(state, out) ==
    [k \in State |->
        IF k \notin DOMAIN out THEN state[k]
        ELSE IF k = "messages" THEN add_messages(state.messages, out.messages)
        ELSE out[k]]

\* state.get(key, default) for a key that State does not hold
Get(state, key, default) == IF key \in DOMAIN state THEN state[key] ELSE default

stem_keywords == {"math", "physics", "chemistry", "biology", "engineering",
                  "quantum", "algorithm", "molecule", "protein", "theorem"}

paper_keywords == {"paper", "research", "publication", "journal", "study",
                   "experiment", "findings", "published", "arxiv"}

current_keywords == {<<"recent">>, <<"latest">>, <<"new">>, <<"current">>,
                     <<"today">>, <<"this", "year">>, <<"2023">>, <<"2024">>,
                     <<"2025">>, <<"news">>}

url_indicators == {"http", "https", "www.", ".com", ".org", ".edu"}

\* the table with the URL rule tried before the paper rule
_select_tools_url_first(query) ==
    LET query_lower == Lower(query)
        any(keywords) == ContainsAny(query_lower, {<<k>> : k \in keywords})
    IN  IF any(url_indicators)
        THEN <<"tavily_extract", "tavily">>
        ELSE IF any(stem_keywords) /\ any(paper_keywords)
        THEN <<"arxiv", "wikipedia", "tavily">>
        ELSE IF ContainsAny(query_lower, current_keywords)
        THEN <<"tavily", "wikipedia", "arxiv">>
        ELSE <<"wikipedia", "tavily", "arxiv">>

_select_tools(query) ==
    LET query_lower == Lower(query)
        any(keywords) == ContainsAny(query_lower, {<<k>> : k \in keywords})
    IN  IF any(stem_keywords) /\ any(paper_keywords)
        THEN <<"arxiv", "wikipedia", "tavily">>
        ELSE IF any(url_indicators)
        THEN <<"tavily_extract", "tavily">>
        ELSE IF ContainsAny(query_lower, current_keywords)
        THEN <<"tavily", "wikipedia", "arxiv">>
        ELSE <<"wikipedia", "tavily", "arxiv">>

\* preferred_tools.remove("arxiv"); preferred_tools.insert(0, "arxiv")
ArxivFirst(tools) ==
    <<"arxiv">> \o SelectSeq(tools, LAMBDA t : t # "arxiv")

\* bool(value) of a value of the context
Truthy(value) ==
    CASE value.kind = "bool" -> value.items # <<>>
      [] value.kind = "str" -> value.items[1] # <<>>
      [] OTHER -> value.items # <<>>

\* the (role, content) pairs of the user among the messages
user_messages(state) ==
    SelectSeq(state.messages, LAMBDA m : m.tuple /\ m.type = "user")

\* the list tool_router holds when it returns, for a state with a user pair
preferred_tools(state) ==
    LET latest_user_message ==
            user_messages(state)[Len(user_messages(state))].content
        selected == _select_tools(latest_user_message)
        stem_focus == /\ "stem_focus" \in DOMAIN state.context
                      /\ Truthy(state.context["stem_focus"])
    IN  IF stem_focus /\ "arxiv" \in Range(selected)
        THEN ArxivFirst(selected) ELSE selected

tool_router(state) ==
    LET full(tool_choice) ==
            [tool_choice |-> tool_choice,
             messages |-> state.messages,
             context |-> state.context,
             memory |-> state.memory,
             memory_summary |-> Get(state, "memory_summary", <<>>),
             reasoning |-> state.reasoning]
    IN  IF user_messages(state) = <<>> THEN full(NoTool)
        ELSE full(preferred_tools(state)[1])

\* What the chat model does at its n-th call of a run: the outcomes of the
\* first calls, then one outcome for ever.  "answer" is a reply with text,
\* "empty" a reply without text, "tool" a tool call without text,
\* "tool_text" a tool call with text, "raise" an exception of llm.invoke.
Outcome(llm, n) == IF n <= Len(llm.pre) THEN llm.pre[n] ELSE llm.rest

\* ', '.join(context['interests']) of _build_system_prompt
BuildPromptRaises(context) ==
    /\ "interests" \in DOMAIN context
    /\ context["interests"].kind = "numlist"

Step(type, content) == [type |-> type, content |-> content]

chatbot(state, outcome) ==
    LET memory_content == state.memory
        per_message(m) ==
            IF m.tuple /\ m.type = "user"
            THEN <<Step("thought", "understand the query")>>
                 \o (IF memory_content # <<>>
                     THEN <<Step("memory", "retrieving relevant context")>>
                     ELSE <<>>)
            ELSE <<>>
        Steps[i \in 0..Len(state.messages)] ==
            IF i = 0 THEN <<>> ELSE Steps[i - 1] \o per_message(state.messages[i])
        reasoning_steps == Steps[Len(state.messages)]
        rest == [context |-> state.context,
                 memory |-> state.memory,
                 memory_summary |-> Get(state, "memory_summary", <<>>)]
    IN  IF BuildPromptRaises(state.context) \/ outcome = "raise"
        THEN rest @@
             [messages |-> Append(state.messages, AIMessage(ApologyText, FALSE)),
              reasoning |-> <<Step("error", "str(e)")>>]
        ELSE LET result ==
                     CASE outcome = "answer" -> AIMessage(AnswerText, FALSE)
                       [] outcome = "empty" -> AIMessage(<<>>, FALSE)
                       [] outcome = "tool" -> AIMessage(<<>>, TRUE)
                       [] OTHER -> AIMessage(ToolCallText, TRUE)
             IN  rest @@
                 [messages |-> Append(state.messages, result),
                  reasoning |-> Append(reasoning_steps,
                                       Step("action", "generated response"))]

\* the edge out of chatbot: the last message asks for a tool or the run ends
tools_condition(state) ==
    LET message == state.messages[Len(state.messages)]
    IN  IF message.type = "ai" /\ message.tool_calls THEN "tools" ELSE "END"

\* re.findall(r'https?://...', content)
FindUrls(content) ==
    SelectSeq(content, LAMBDA w : w \in {"https://u1", "https://u2"})

RECURSIVE TrackAll(_, _, _, _, _)
TrackAll(conversations, conversation_id, urls, tool_name, now) ==
    IF urls = <<>> THEN conversations
    ELSE TrackAll(track_url(conversations, conversation_id, Head(urls),
                            tool_name, NoDict, now),
                  conversation_id, Tail(urls), tool_name, now)

\* what ToolNode(handle_tool_errors=True) makes of a tool's exception
ToolErrorText == <<"Error", "Please", "fix", "your", "mistakes">>

\* [out: the value the node returns, conversations: the agent's URL tracker]
\* The tool node answers the tool call with a tool message: the tool's
\* output, or the error text when the tool raised (tool_outcome "raise").
tool_node_wrapper(state, conversations, tool_outcome, now) ==
    LET conversation_id ==
            IF "conversation_id" \in DOMAIN state.context
            THEN state.context["conversation_id"].items[1] ELSE NoId
        tool_name == Get(state, "tool_choice", "")
        result == [messages |->
                      <<ToolMessage(IF tool_outcome = "raise" THEN ToolErrorText
                                    ELSE ToolOutputText)>>]
        functions == SelectSeq(result.messages, LAMBDA m : m.type = "function")
        Tracked[i \in 0..Len(functions)] ==
            IF i = 0 THEN conversations
            ELSE TrackAll(Tracked[i - 1], conversation_id,
                          FindUrls(functions[i].content), tool_name, now)
    IN  [out |-> result,
         conversations |-> IF conversation_id # NoId
                           THEN Tracked[Len(functions)] ELSE conversations]

\* CriticFramework.reflect_on_tool_output: the state with its decision
critic_node(state, need_additional_tools) ==
    [messages |-> state.messages,
     context |-> state.context,
     memory |-> state.memory,
     reasoning |-> state.reasoning,
     need_additional_tools |-> need_additional_tools]

\* the edge evaluated on the channels alone
critic_edge_channels_only(out, state) ==
    IF Get(state, "need_additional_tools", FALSE) THEN "tool_router"
    ELSE "chatbot"

\* lambda x: x.get("need_additional_tools", False), then the edge's table.
\* The edge is evaluated on the channels, to which the graph library adds
\* the keys of the node's return value that are no channels.
critic_edge(out, state) ==
    IF Get(Update(out, state), "need_additional_tools", FALSE)
    THEN "tool_router"
    ELSE "chatbot"

\* the outcome of the tools of a run
ToolOutcome(llm) == IF "tool" \in DOMAIN llm THEN llm.tool ELSE "ok"

\* a run of the compiled graph: the channels (state), the node to run next
\* (node), the node that ran last (from) and the channels it found (before),
\* whether an exception was raised inside it (node_raised), what the critic
\* decided last (decision), the values streamed so far (events), the steps
\* and the chat model calls made, and the agent's URL tracker
GraphStart(input, conversations) ==
    LET state == Write([messages |-> <<>>, context |-> NoDict,
                        memory |-> <<>>, reasoning |-> <<>>], input)
    IN  [state |-> state, node |-> "tool_router", from |-> "START",
         before |-> state, node_raised |-> FALSE, decision |-> FALSE,
         events |-> <<state>>, steps |-> 0, calls |-> 0,
         conversations |-> conversations,
         llm_raised |-> FALSE, raised |-> FALSE]

\* the run after a node returned `out`, with `node` to run next
Emit(r, out, node) ==
    [r EXCEPT !.state = Write(r.state, out), !.node = node, !.from = r.node,
              !.before = r.state, !.node_raised = FALSE,
              !.events = Append(@, Write(r.state, out)), !.steps = @ + 1]

tool_router_step(r) == Emit(r, tool_router(r.state), "chatbot")

chatbot_step(r, outcome) ==
    LET out == chatbot(r.state, outcome)
        fails == BuildPromptRaises(r.state.context) \/ outcome = "raise"
    IN  [Emit(r, out, tools_condition(Write(r.state, out)))
            EXCEPT !.calls = @ + 1,
                   !.node_raised = fails,
                   !.llm_raised = @ \/ (~BuildPromptRaises(r.state.context)
                                        /\ outcome = "raise")]

tools_step(r, tool_outcome, now) ==
    LET t == tool_node_wrapper(r.state, r.conversations, tool_outcome, now)
    IN  [Emit(r, t.out, "critic")
            EXCEPT !.conversations = t.conversations,
                   !.node_raised = (tool_outcome = "raise")]

critic_step(r, need_additional_tools) ==
    LET out == critic_node(r.state, need_additional_tools)
    IN  [Emit(r, out, critic_edge(out, Write(r.state, out)))
            EXCEPT !.decision = need_additional_tools]

\* one step of the run under the chat model and the tools of llm
GraphStep(r, llm, now) ==
    CASE r.node = "tool_router" -> tool_router_step(r)
      [] r.node = "chatbot" -> chatbot_step(r, Outcome(llm, r.calls + 1))
      [] r.node = "tools" -> tools_step(r, ToolOutcome(llm), now)
      [] OTHER -> critic_step(r, llm.critic)

RECURSIVE RunFrom(_, _, _)
\* graph.stream(state, stream_mode="values") from node r.node on: the
\* channels after the input and after every step, or an exception once
\* RecursionLimit steps did not reach the end
RunFrom(r, llm, now) ==
    IF r.node = "END" THEN r
    ELSE IF r.steps >= RecursionLimit THEN [r EXCEPT !.raised = TRUE]
    ELSE RunFrom(GraphStep(r, llm, now), llm, now)

\* the run of the graph on the state that search prepares
GraphRun(input, conversations, llm, now) ==
    RunFrom(GraphStart(input, conversations), llm, now)

-----------------------------------------------------------------------------
(* WebSearchService (service.py).  A service is the record S of            *)
(* [initialised, hierarchical_memories, active_conversations,              *)
(*  agent_url_tracker, memory_store, uuids].                               *)

UnavailableText == <<"the", "web", "search", "system", "is", "unavailable">>

FallbackText == <<"I", "couldnt", "generate", "a", "response">>

SearchErrorText == <<"I", "encountered", "an", "error", "while", "searching">>

\* str(uuid.uuid4()): the n-th identifier the process draws
Uuid(n) ==
    CASE n = 1 -> "uuid-1" [] n = 2 -> "uuid-2" [] n = 3 -> "uuid-3"
      [] n = 4 -> "uuid-4" [] n = 5 -> "uuid-5" [] n = 6 -> "uuid-6"
      [] n = 7 -> "uuid-7" [] n = 8 -> "uuid-8" [] n = 9 -> "uuid-9"
      [] n = 10 -> "uuid-10" [] n = 11 -> "uuid-11" [] OTHER -> "uuid-12"

\* os.path.join(MEMORY_DIR, f"{conversation_id}.json")
Filename(conversation_id) == conversation_id \o <<".json">>

\* get_memory_summary: ', '.join(value) raises for a list that holds
\* anything but strings
get_memory_summary(m) ==
    [raised |-> \E key \in DOMAIN m.user_profile :
                    m.user_profile[key].kind = "numlist",
     ret |-> [profile |-> m.user_profile,
              current |-> Len(m.main_memory),
              areas |-> Len(m.external_memory),
              total |-> m.stats.total_exchanges,
              topics |-> [i \in 1..Min(5, Len(m.external_memory)) |->
                             m.external_memory[i].topic]]]

\* [memories: hierarchical_memories afterwards, load_failed: whether
\*  load_from_file raised]
get_or_create_memory(memories, store, conversation_id) ==
    LET memory_file == Filename(conversation_id)
    IN  IF conversation_id \in DOMAIN memories
        THEN [memories |-> memories, load_failed |-> FALSE]
        ELSE IF memory_file \in DOMAIN store
        THEN IF store[memory_file].corrupt
             THEN [memories |->
                       Update(memories, conversation_id :>
                                  HierarchicalMemory(DefaultConfig)),
                   load_failed |-> TRUE]
             ELSE [memories |->
                       Update(memories, conversation_id :>
                                  load_from_file(store[memory_file])),
                   load_failed |-> FALSE]
        ELSE [memories |->
                  Update(memories, conversation_id :>
                             HierarchicalMemory(DefaultConfig)),
              load_failed |-> FALSE]

\* save_memory: [store: the directory afterwards, ret: the value returned].
\* outcome "ok" writes the file; "open_fails" raises before anything is
\* written; "dump_fails" raises after open() has truncated the file.
save_memory(memories, store, conversation_id, outcome, c) ==
    IF conversation_id \notin DOMAIN memories
    THEN [store |-> store, ret |-> FALSE]
    ELSE LET memory_file == Filename(conversation_id)
         IN  CASE outcome = "ok" ->
                    [store |-> Update(store, memory_file :>
                         [corrupt |-> FALSE,
                          data |-> memory_data(memories[conversation_id]),
                          mtime |-> c]),
                     ret |-> TRUE]
               [] outcome = "dump_fails" ->
                    [store |-> Update(store, memory_file :>
                         [corrupt |-> TRUE, data |-> NoDict, mtime |-> c]),
                     ret |-> FALSE]
               [] OTHER -> [store |-> store, ret |-> FALSE]

\* event["messages"][-1]
LastMessage(event) == event.messages[Len(event.messages)]

\* the contents that the loop over the events appends to ai_responses
AiResponses(events) ==
    LET one(e) == IF LastMessage(e).type = "ai" /\ LastMessage(e).content # <<>>
                  THEN <<LastMessage(e).content>> ELSE <<>>
        Acc[i \in 0..Len(events)] ==
            IF i = 0 THEN <<>> ELSE Acc[i - 1] \o one(events[i])
    IN  Acc[Len(events)]

\* the steps that the loop over the events appends to reasoning_steps
ReasoningSteps(events) ==
    LET Acc[i \in 0..Len(events)] ==
            IF i = 0 THEN <<>> ELSE Acc[i - 1] \o events[i].reasoning
    IN  Acc[Len(events)]

\* What a search call leaves: [S: the service afterwards, raised: whether
\* search raised, ret: the value returned, failures: the steps that failed,
\* llm_raised: whether llm.invoke raised]
Done(S, raised, failures, llm_raised, ret) ==
    [S |-> S, raised |-> raised, failures |-> failures,
     llm_raised |-> llm_raised, ret |-> ret]

\* the value returned by the except branch of search
ErrorResult(conversation_id, message_id) ==
    [status |-> "error",
     message |-> "Error: str(e)",
     response |-> SearchErrorText,
     conversation_id |-> conversation_id,
     message_id |-> message_id,
     reasoning |-> <<Step("error", "str(e)")>>,
     searched_websites |-> <<>>]

\* the end of search with a failed save reported as an error
search_save_fails_with_save(S, in, c, conversation_id, failures, run, response, a) ==
    LET w == save_memory(S.hierarchical_memories, S.memory_store,
                         conversation_id, in.save, c)
    IN  IF a.raised \/ ~w.ret
        THEN Done([S EXCEPT !.memory_store = w.store, !.uuids = @ + 1], FALSE,
                  failures \cup (IF w.ret THEN {} ELSE {"save"}),
                  run.llm_raised,
                  ErrorResult(conversation_id, Uuid(S.uuids + 1)))
        ELSE Done([S EXCEPT !.memory_store = w.store, !.uuids = @ + 1],
                  FALSE, failures, run.llm_raised,
                  [status |-> "success",
                   response |-> response,
                   conversation_id |-> conversation_id,
                   message_id |-> Uuid(S.uuids + 1),
                   reasoning |-> ReasoningSteps(run.events),
                   searched_websites |->
                       get_urls(run.conversations, conversation_id)])

\* search from self.save_memory(conversation_id) on; a is what add_exchange
\* did, S the service with the memory that add_exchange changed
search_save(S, in, c, conversation_id, failures, run, response, a) ==
    IF a.raised
    THEN Done([S EXCEPT !.uuids = @ + 1], FALSE,
              failures \cup {"add_exchange"}, run.llm_raised,
              ErrorResult(conversation_id, Uuid(S.uuids + 1)))
    ELSE LET w == save_memory(S.hierarchical_memories, S.memory_store,
                              conversation_id, in.save, c)
         IN  Done([S EXCEPT !.memory_store = w.store, !.uuids = @ + 1],
                  FALSE,
                  failures \cup (IF w.ret THEN {} ELSE {"save"}),
                  run.llm_raised,
                  [status |-> "success",
                   response |-> response,
                   conversation_id |-> conversation_id,
                   message_id |-> Uuid(S.uuids + 1),
                   reasoning |-> ReasoningSteps(run.events),
                   searched_websites |->
                       get_urls(run.conversations, conversation_id)])

\* search from the loop over the events on; run is what graph.stream did
search_events(S, in, c, conversation_id, context, memory, failures, run, ai_responses) ==
    LET response == IF ai_responses # <<>>
                    THEN ai_responses[Len(ai_responses)] ELSE FallbackText
        a == add_exchange(memory, in.query, response, context, Now(c))
    IN  search_save(
            [S EXCEPT
               !.active_conversations =
                   Update(@, conversation_id :>
                       @[conversation_id] \o
                       [i \in DOMAIN ai_responses |-> <<"ai", ai_responses[i]>>]),
               !.hierarchical_memories = Update(@, conversation_id :> a.mem)],
            in, c, conversation_id, failures, run, response, a)

\* search from the try on; history is the transcript with the user's turn
search_try(S, in, c, conversation_id, context, memory, failures, run) ==
    IF run.raised
    THEN Done([S EXCEPT !.uuids = @ + 1,
                        !.agent_url_tracker = run.conversations],
              FALSE, failures \cup {"graph"}, run.llm_raised,
              ErrorResult(conversation_id, Uuid(S.uuids + 1)))
    ELSE search_events([S EXCEPT !.agent_url_tracker = run.conversations],
                       in, c, conversation_id, context, memory, failures, run,
                       AiResponses(run.events))

\* search from the transcript append on; r is what retrieve_relevant_context
\* did and memory_summary what get_memory_summary did
search_history(S, in, c, conversation_id, context, failures, r, memory_summary, history) ==
    IF memory_summary.raised
    THEN Done(S, TRUE, failures \cup {"summary"}, FALSE, NoDict)
    ELSE search_try(
             [S EXCEPT !.active_conversations =
                           Update(@, conversation_id :> history)],
             in, c, conversation_id, context, r.mem, failures,
             GraphRun([messages |-> [i \in DOMAIN history |-> Pair(history[i])],
                       context |-> context,
                       memory |-> r.ret,
                       memory_summary |-> memory_summary.ret,
                       reasoning |-> <<>>],
                      S.agent_url_tracker, in.llm, Now(c)))

\* search from retrieve_relevant_context on; g is what get_or_create_memory
\* did
search_memory(S, in, c, conversation_id, context, g, r) ==
    search_history(
        [S EXCEPT !.hierarchical_memories =
                      Update(g.memories, conversation_id :> r.mem)],
        in, c, conversation_id, context,
        IF g.load_failed THEN {"load"} ELSE {},
        r, get_memory_summary(r.mem),
        Append(IF conversation_id \in DOMAIN S.active_conversations
               THEN S.active_conversations[conversation_id] ELSE <<>>,
               <<"user", in.query>>))

\* search from the context update on
search_context(S, in, c, conversation_id) ==
    IF in.context.kind = "other"
    THEN Done(S, TRUE, {"context"}, FALSE, NoDict)
    ELSE LET g == get_or_create_memory(S.hierarchical_memories,
                                       S.memory_store, conversation_id)
         IN  search_memory(
                 S, in, c, conversation_id,
                 Update(IF in.context.kind = "dict" THEN in.context.dict
                        ELSE NoDict,
                        "conversation_id" :> Str(conversation_id)),
                 g,
                 retrieve_relevant_context(g.memories[conversation_id],
                                           in.query, Now(c)))

\* search(query, conversation_id, context) at clock c.  in.llm is what the
\* chat model does during the call, in.save what writing the file does.
search(S, in, c) ==
    IF ~S.initialised
    THEN Done(S, FALSE, {}, FALSE,
              [status |-> "error",
               message |-> "Web search agent is not properly initialized",
               response |-> UnavailableText])
    ELSE LET generated == in.conversation_id = NoId
             conversation_id == IF generated THEN <<Uuid(S.uuids + 1)>>
                                ELSE in.conversation_id
         IN  search_context(
                 [S EXCEPT !.uuids = @ + (IF generated THEN 1 ELSE 0),
                           !.agent_url_tracker = clear(@, conversation_id)],
                 in, c, conversation_id)

\* filename.endswith('.json')
EndsWithJson(filename) ==
    filename # <<>> /\ filename[Len(filename)] = ".json"

\* filename.replace('.json', '')
ReplaceJson(filename) == SelectSeq(filename, LAMBDA part : part # ".json")

\* del d[key] if key in d
Del(d, key) == [k \in DOMAIN d \ {key} |-> d[k]]

NoFailure == [file |-> <<>>, at |-> "none"]

RECURSIVE Scan(_, _, _, _, _)
\* the loop of cleanup_old_memories over os.listdir(MEMORY_DIR); failing
\* names the file whose os.path.getmtime ("stat") or os.remove ("remove")
\* raises.  The exception leaves the loop.
Scan(st, listing, max_age_hours, failing, current_time) ==
    IF listing = <<>> THEN st
    ELSE LET filename == Head(listing)
             rest == Tail(listing)
             file_age_hours == current_time - st.S.memory_store[filename].mtime
             conversation_id == ReplaceJson(filename)
         IN  IF ~EndsWithJson(filename)
             THEN Scan(st, rest, max_age_hours, failing, current_time)
             ELSE IF failing.file = filename /\ failing.at = "stat"
             THEN [st EXCEPT !.failed = TRUE]
             ELSE IF file_age_hours > max_age_hours
             THEN IF failing.file = filename /\ failing.at = "remove"
                  THEN [st EXCEPT !.failed = TRUE]
                  ELSE Scan([st EXCEPT
                               !.S.memory_store = Del(@, filename),
                               !.S.hierarchical_memories =
                                   Del(@, conversation_id),
                               !.S.active_conversations =
                                   Del(@, conversation_id),
                               !.cleaned = @ + 1],
                            rest, max_age_hours, failing, current_time)
             ELSE Scan(st, rest, max_age_hours, failing, current_time)

\* [S: the service afterwards, cleaned: the value returned, failed: whether
\*  the except branch was taken]
cleanup_old_memories(S, max_age_hours, listing, failing, current_time) ==
    Scan([S |-> S, cleaned |-> 0, failed |-> FALSE],
         listing, max_age_hours, failing, current_time)

-----------------------------------------------------------------------------
(* Specification SpecService: one WebSearchService process, its callers,   *)
(* the chat model and the memory directory                                 *)

\* what the chat model does during one search call
Answers == [pre |-> <<>>, rest |-> "answer", critic |-> FALSE]

Raises == [pre |-> <<>>, rest |-> "raise", critic |-> FALSE]

RepliesEmpty == [pre |-> <<>>, rest |-> "empty", critic |-> FALSE]

ToolThenAnswer == [pre |-> <<"tool">>, rest |-> "answer", critic |-> FALSE]

ToolThenRaise == [pre |-> <<"tool_text">>, rest |-> "raise", critic |-> TRUE]

ToolForEver == [pre |-> <<>>, rest |-> "tool", critic |-> FALSE]

\* the context argument: None, a JSON object, or any other JSON value
CtxNone == [kind |-> "none", dict |-> NoDict]

CtxTags == [kind |-> "dict",
            dict |-> "user_tags" :> NumList(<< <<"1">>, <<"2">> >>)]

CtxInterests == [kind |-> "dict", dict |-> MetaInterests]

CtxOther == [kind |-> "other", dict |-> NoDict]

BaseInput ==
    [query |-> MsgMath, conversation_id |-> <<"c1">>, context |-> CtxNone,
     llm |-> Answers, save |-> "ok"]

SearchInputs ==
    { BaseInput,
      [BaseInput EXCEPT !.llm = Raises],
      [BaseInput EXCEPT !.llm = RepliesEmpty],
      [BaseInput EXCEPT !.llm = ToolThenAnswer],
      [BaseInput EXCEPT !.llm = ToolThenRaise],
      [BaseInput EXCEPT !.llm = ToolForEver],
      [BaseInput EXCEPT !.context = CtxTags],
      [BaseInput EXCEPT !.context = CtxInterests],
      [BaseInput EXCEPT !.context = CtxOther],
      [BaseInput EXCEPT !.query = MsgArt],
      [BaseInput EXCEPT !.conversation_id = NoId],
      [BaseInput EXCEPT !.conversation_id = <<"c1", ".json">>],
      [BaseInput EXCEPT !.save = "open_fails"],
      [BaseInput EXCEPT !.save = "dump_fails"] }

\* the calls of one conversation after the other that a caller makes while
\* the chat model answers and the files are written
ConversationInputs ==
    { BaseInput,
      [BaseInput EXCEPT !.conversation_id = NoId],
      [BaseInput EXCEPT !.conversation_id = <<"c1", ".json">>] }

MaxSvcOps == 3

MaxCleanupOps == 4

\* max_age_hours of the cleanup task
DefaultMaxAgeHours == 24

\* the hours that pass between two calls when the service is left alone
HoursLeftAlone == 25

Service ==
    [initialised |-> initialised,
     hierarchical_memories |-> hierarchical_memories,
     active_conversations |-> active_conversations,
     agent_url_tracker |-> agent_url_tracker,
     memory_store |-> memory_store,
     uuids |-> uuid_count]

\* the service variables take the fields of S
Becomes(S) ==
    /\ initialised' = S.initialised
    /\ hierarchical_memories' = S.hierarchical_memories
    /\ active_conversations' = S.active_conversations
    /\ agent_url_tracker' = S.agent_url_tracker
    /\ memory_store' = S.memory_store
    /\ uuid_count' = S.uuids

\* WebSearchService.__init__: _initialize_llm may fail, and then the
\* service has no agent and no graph
InitService ==
    /\ clock = 1
    /\ MemIdle
    /\ UrlIdle
    /\ ThrIdle
    /\ RtrIdle
    /\ initialised \in BOOLEAN
    /\ hierarchical_memories = <<>>
    /\ active_conversations = <<>>
    /\ agent_url_tracker = <<>>
    /\ memory_store = <<>>
    /\ uuid_count = 0
    /\ svc_ops = 0
    /\ returned = [op |-> "init"]

SearchWith(inputs, bound) ==
    /\ svc_ops < bound
    /\ \E in \in inputs :
       \E r \in {search(Service, in, clock)} :
              /\ Becomes(r.S)
              /\ returned' = [op |-> "search", in |-> in, raised |-> r.raised,
                              failures |-> r.failures,
                              llm_raised |-> r.llm_raised, ret |-> r.ret,
                              before |-> Service]
    /\ svc_ops' = svc_ops + 1
    /\ clock' = clock + 1
    /\ UNCHANGED notSvcVars

Search == SearchWith(SearchInputs, MaxSvcOps)

\* the process is started again: the module's dictionaries are empty and
\* the service is constructed anew; the files stay
Restart ==
    /\ svc_ops < MaxSvcOps
    /\ initialised' \in BOOLEAN
    /\ hierarchical_memories' = <<>>
    /\ active_conversations' = <<>>
    /\ agent_url_tracker' = <<>>
    /\ svc_ops' = svc_ops + 1
    /\ clock' = clock + 1
    /\ returned' = [op |-> "restart"]
    /\ UNCHANGED <<notSvcVars, memory_store, uuid_count>>

NextService == Search \/ Restart

SpecService == InitService /\ [][NextService]_vars

-----------------------------------------------------------------------------
(* Claims about search, under SpecService *)

\* C6: if llm.invoke raises during a search call, search does not raise and
\* returns a result whose status is "error" and whose response is not empty.
C6_GracefulDegradation ==
    (returned.op = "search" /\ returned.llm_raised) =>
        /\ ~returned.raised
        /\ returned.ret.status = "error"
        /\ returned.ret.response # <<>>

\* C7: whichever step of a search call fails, search does not raise and
\* returns a result whose status is "error".
C7_NoFailureEscapes ==
    (returned.op = "search" /\ returned.failures # {}) =>
        /\ ~returned.raised
        /\ returned.ret.status = "error"

ResultFields ==
    {"status", "response", "conversation_id", "message_id", "reasoning",
     "searched_websites"}

\* C8: every value that search returns holds the six fields of a result,
\* and its conversation_id is the one the caller supplied, if any.
C8_ResultShape ==
    (returned.op = "search" /\ ~returned.raised) =>
        /\ ResultFields \subseteq DOMAIN returned.ret
        /\ returned.in.conversation_id # NoId =>
               returned.ret.conversation_id = returned.in.conversation_id

-----------------------------------------------------------------------------
(* Specification SpecCleanup: the service, callers of a few conversations  *)
(* and the cleanup task                                                    *)

Turn == SearchWith(ConversationInputs, MaxCleanupOps)

\* the orders in which os.listdir may list the files
Listings(files) ==
    {l \in [1..Cardinality(files) -> files] :
        \A i, j \in DOMAIN l : l[i] = l[j] => i = j}

\* the files whose age exceeds max_age_hours
OverAge(store, max_age_hours, current_time) ==
    {f \in DOMAIN store :
        EndsWithJson(f) /\ current_time - store[f].mtime > max_age_hours}

Cleanup ==
    /\ svc_ops < MaxCleanupOps
    /\ \E listing \in Listings(DOMAIN memory_store) :
       \E failing \in {NoFailure} \cup
                      [file : DOMAIN memory_store, at : {"stat", "remove"}] :
       \E r \in {cleanup_old_memories(Service, DefaultMaxAgeHours, listing,
                                       failing, clock)} :
              /\ Becomes(r.S)
              /\ returned' = [op |-> "cleanup", ret |-> r.cleaned,
                              failed |-> r.failed, failing |-> failing,
                              over_age |-> OverAge(memory_store,
                                                   DefaultMaxAgeHours, clock),
                              before |-> Service]
    /\ svc_ops' = svc_ops + 1
    /\ clock' = clock + 1
    /\ UNCHANGED notSvcVars

\* nothing calls the service for a while
TimePasses ==
    /\ svc_ops < MaxCleanupOps
    /\ clock' = clock + HoursLeftAlone
    /\ svc_ops' = svc_ops + 1
    /\ returned' = [op |-> "wait"]
    /\ UNCHANGED <<notSvcVars, initialised, hierarchical_memories,
                   active_conversations, agent_url_tracker, memory_store,
                   uuid_count>>

NextCleanup == Turn \/ TimePasses \/ Cleanup

SpecCleanup == InitService /\ [][NextCleanup]_vars

-----------------------------------------------------------------------------
(* Claims about cleanup_old_memories, under SpecCleanup *)

\* the conversation whose memory is kept in the file
ConversationOf(filename) == SubSeq(filename, 1, Len(filename) - 1)

\* C9: cleanup_old_memories(T) deletes the files older than T hours and no
\* other file, removes the memory and the transcript of exactly the
\* conversations of those files, and returns the number of files deleted.
C9_CleanupSelectivity ==
    returned.op = "cleanup" =>
        LET before == returned.before
            evicted == {ConversationOf(f) : f \in returned.over_age}
        IN  /\ DOMAIN memory_store =
                   DOMAIN before.memory_store \ returned.over_age
            /\ DOMAIN hierarchical_memories =
                   DOMAIN before.hierarchical_memories \ evicted
            /\ DOMAIN active_conversations =
                   DOMAIN before.active_conversations \ evicted
            /\ returned.ret =
                   Cardinality(DOMAIN before.memory_store \ DOMAIN memory_store)

\* C10: when the handling of one file fails during cleanup_old_memories,
\* every other file older than the threshold is deleted and counted.
C10_CleanupErrorIsolation ==
    (returned.op = "cleanup" /\ returned.failed) =>
        LET others == returned.over_age \ {returned.failing.file}
        IN  /\ \A f \in others : f \notin DOMAIN memory_store
            /\ returned.ret = Cardinality(others)


-----------------------------------------------------------------------------
(* Specification SpecRouter: tool_router on transcripts of (role, text)     *)
(* pairs, the messages it looks for                                         *)

MaxRouterMessages == 3

QueryPaperRecent ==
    <<"latest", "research", "paper", "on", "quantum", "computing", "2024">>

QueryPaperUrl == <<"paper", "on", "physics", "at", "https://x.org">>

QueryUrlRecent == <<"summarize", "www.example.com", "today">>

QueryRecent == <<"latest", "news">>

QueryGeneral == <<"what", "is", "photosynthesis">>

QueryStemOnly == <<"mathematics", "and", "physics">>

QueryPaperOnly == <<"journal", "of", "history">>

QueryRenewable == <<"renewable", "energy">>

QueryThisYear == <<"events", "this", "year">>

QueryUpper == <<"Physics", "Paper">>

RouterQueries ==
    {QueryPaperRecent, QueryPaperUrl, QueryUrlRecent, QueryRecent,
     QueryGeneral, QueryStemOnly, QueryPaperOnly, QueryRenewable,
     QueryThisYear, QueryUpper}

\* the student contexts: none, STEM-focused, and explicitly not
RouterContexts ==
    {NoDict, [stem_focus |-> Bool(TRUE)], [stem_focus |-> Bool(FALSE)]}

NoQuery == <<>>

InitRouter ==
    /\ clock = 1
    /\ MemIdle
    /\ UrlIdle
    /\ ThrIdle
    /\ SvcIdle
    /\ \E context \in RouterContexts :
          router_state = [messages |-> <<>>, context |-> context,
                          memory |-> <<>>, reasoning |-> <<>>]
    /\ routed = [op |-> "init"]
    /\ graph_run = [node |-> "init"]
    /\ run_llm = <<>>

\* the student writes
UserAsks ==
    /\ Len(router_state.messages) < MaxRouterMessages
    /\ \E query \in RouterQueries :
          router_state' = [router_state EXCEPT !.messages =
                              Append(@, Pair(<<"user", query>>))]
    /\ UNCHANGED <<clock, notRtrVars, routed>>

\* the assistant's answer joins the transcript
AiReplies ==
    /\ Len(router_state.messages) < MaxRouterMessages
    /\ router_state' = [router_state EXCEPT !.messages =
                           Append(@, Pair(<<"ai", AnswerText>>))]
    /\ UNCHANGED <<clock, notRtrVars, routed>>

Route ==
    /\ routed' =
          [op |-> "route",
           state |-> router_state,
           query |-> IF user_messages(router_state) = <<>> THEN NoQuery
                     ELSE user_messages(router_state)
                              [Len(user_messages(router_state))].content,
           tools |-> IF user_messages(router_state) = <<>> THEN <<>>
                     ELSE _select_tools(
                              user_messages(router_state)
                                  [Len(user_messages(router_state))].content),
           preferred |-> IF user_messages(router_state) = <<>> THEN <<>>
                         ELSE preferred_tools(router_state),
           out |-> tool_router(router_state)]
    /\ UNCHANGED <<clock, notRtrVars, router_state>>

NextRouter == UserAsks \/ AiReplies \/ Route

SpecRouter == InitRouter /\ [][NextRouter]_vars

\* the rules of the routing table that a lower-case query meets
MeetsPaperRule(q) ==
    /\ \E k \in stem_keywords : Contains(q, <<k>>)
    /\ \E k \in paper_keywords : Contains(q, <<k>>)

MeetsUrlRule(q) == \E k \in url_indicators : Contains(q, <<k>>)

MeetsRecencyRule(q) == \E k \in current_keywords : Contains(q, k)

StemFocused(state) ==
    /\ "stem_focus" \in DOMAIN state.context
    /\ state.context["stem_focus"] = Bool(TRUE)

-----------------------------------------------------------------------------
(* Specification SpecGraph: one run of the compiled graph, node by node    *)

GraphMessages ==
    { <<Pair(<<"user", MsgMath>>)>>,
      <<Pair(<<"user", MsgMath>>), Pair(<<"ai", AnswerText>>),
        Pair(<<"user", MsgArt>>)>> }

\* the context search hands over: the conversation id, and interests the
\* system prompt cannot join
GraphContexts ==
    { "conversation_id" :> Str(<<"c1">>),
      ("conversation_id" :> Str(<<"c1">>))
          @@ ("interests" :> NumList(<< <<"1">>, <<"2">> >>)) }

GraphMemories == { <<>>, <<"user", "asked", "about", "physics">> }

\* the chat model of a run, the decision of its critic and its tools
GraphLlms ==
    { [pre |-> b.pre, rest |-> b.rest, critic |-> c, tool |-> t] :
        b \in {Answers, Raises, RepliesEmpty, ToolThenAnswer, ToolThenRaise,
               ToolForEver},
        c \in BOOLEAN, t \in {"ok", "raise"} }

InitGraph ==
    /\ clock = 1
    /\ MemIdle
    /\ UrlIdle
    /\ ThrIdle
    /\ SvcIdle
    /\ router_state = <<>>
    /\ routed = [op |-> "init"]
    /\ run_llm \in GraphLlms
    /\ \E messages \in GraphMessages, context \in GraphContexts,
          memory \in GraphMemories :
          graph_run = GraphStart([messages |-> messages, context |-> context,
                            memory |-> memory, reasoning |-> <<>>], <<>>)

Running ==
    /\ graph_run.node # "END"
    /\ ~graph_run.raised
    /\ graph_run.steps < RecursionLimit

ToolRouterNode ==
    /\ Running
    /\ graph_run.node = "tool_router"
    /\ graph_run' = tool_router_step(graph_run)
    /\ UNCHANGED <<clock, notGraphVars, run_llm>>

ChatbotNode ==
    /\ Running
    /\ graph_run.node = "chatbot"
    /\ graph_run' = chatbot_step(graph_run,
                                 Outcome(run_llm, graph_run.calls + 1))
    /\ UNCHANGED <<clock, notGraphVars, run_llm>>

ToolsNode ==
    /\ Running
    /\ graph_run.node = "tools"
    /\ graph_run' = tools_step(graph_run, ToolOutcome(run_llm), Now(clock))
    /\ UNCHANGED <<clock, notGraphVars, run_llm>>

CriticNode ==
    /\ Running
    /\ graph_run.node = "critic"
    /\ graph_run' = critic_step(graph_run, run_llm.critic)
    /\ UNCHANGED <<clock, notGraphVars, run_llm>>

\* the graph library ends a run that took RecursionLimit steps
RecursionError ==
    /\ graph_run.node # "END"
    /\ ~graph_run.raised
    /\ graph_run.steps >= RecursionLimit
    /\ graph_run' = [graph_run EXCEPT !.raised = TRUE]
    /\ UNCHANGED <<clock, notGraphVars, run_llm>>

NextGraph ==
    ToolRouterNode \/ ChatbotNode \/ ToolsNode \/ CriticNode \/ RecursionError

SpecGraph == InitGraph /\ [][NextGraph]_vars

\* the reply at the end of the channels asks for a tool
RequestsTool(state) ==
    /\ state.messages # <<>>
    /\ state.messages[Len(state.messages)].type = "ai"
    /\ state.messages[Len(state.messages)].tool_calls

EndsWithApology(state) ==
    /\ state.messages # <<>>
    /\ state.messages[Len(state.messages)].type = "ai"
    /\ state.messages[Len(state.messages)].content = ApologyText
    /\ ~state.messages[Len(state.messages)].tool_calls

\* C13: an exception raised in a graph node (tool_router, chatbot, tools,
\* critic) is caught in that node and turned into a terminal assistant
\* apology, so that no exception leaves the run, and the context and memory
\* fields after the failing node equal those before it.
C13_NodeFailureEndsInApology ==
    graph_run.node_raised =>
        /\ EndsWithApology(graph_run.state)
        /\ graph_run.node = "END"
        /\ ~graph_run.raised
        /\ graph_run.state.context = graph_run.before.context
        /\ graph_run.state.memory = graph_run.before.memory

IsPrefix(s, t) == Len(s) <= Len(t) /\ SubSeq(t, 1, Len(s)) = s

\* C14: the reasoning field is append-only across every transition of a
\* run: the list a node found is a prefix of the list it leaves.
C14_ReasoningAppendOnly ==
    IsPrefix(graph_run.before.reasoning, graph_run.state.reasoning)

\* the URLs in the outputs of the tools of a run, as the tool node's
\* pattern finds them
ToolUrls(state) ==
    UNION { Range(FindUrls(state.messages[i].content)) :
              i \in {j \in DOMAIN state.messages :
                       state.messages[j].type \in {"tool", "function"}} }

\* agent.extract_searched_websites(conversation_id) at the end of a run
SearchedWebsites(r) ==
    get_urls(r.conversations, r.state.context["conversation_id"].items[1])

\* C16: every URL that a tool records during a search call (through the
\* tool node, the tracking web-search tool or the URL-extraction tool) is
\* recorded in the URLTracker that search clears and reads, and so is among
\* the call's searched_websites.
C16_ToolUrlsAreReported ==
    graph_run.node = "END" =>
        ToolUrls(graph_run.state) \subseteq Range(SearchedWebsites(graph_run))

-----------------------------------------------------------------------------
(* Further properties of the memory (specification Spec) *)

\* C17: add_exchange succeeds for every reachable memory and every user
\* message and metadata, also metadata with a user_ key that names a
\* list-valued profile key such as user_interests: it raises no error and
\* returns the new length of main_memory.
C17_AddExchangeAlwaysSucceeds ==
    last.op = "add" =>
        /\ ~last.raised
        /\ last.ret = Len(mem.main_memory)

\* the exchanges of a list whose user message holds a keyword of the query
Relevant(m, query, exchanges) ==
    {i \in DOMAIN exchanges :
        \E k \in Range(_extract_keywords(query)) :
            Contains(Lower(m.heap[exchanges[i]].user.content), <<k>>)}

\* the exchanges of the external lists of the query's topics
TopicExchanges(m, query) ==
    CandidateExchanges(m.external_memory, _extract_topics(query))

HoldsExchange(m) ==
    \/ m.attention_sinks # <<>>
    \/ m.main_memory # <<>>
    \/ \E t \in DOMAIN m.external_memory : m.external_memory[t] # <<>>

-----------------------------------------------------------------------------
(* Further properties of the service (specification SpecService) *)

Succeeded ==
    /\ returned.op = "search"
    /\ ~returned.raised
    /\ returned.ret.status = "success"

\* the transcript of a conversation of service S
TranscriptOf(S, conversation_id) ==
    IF conversation_id \in DOMAIN S.active_conversations
    THEN S.active_conversations[conversation_id] ELSE <<>>

\* the (user message, ai message) of the newest exchange of a memory
NewestExchange(m) ==
    <<m.heap[Len(m.heap)].user.content, m.heap[Len(m.heap)].ai.content>>

\* C19: a search call that returns "success" appends to the transcript
\* exactly one user turn followed by exactly one assistant turn whose text
\* is the returned response, and adds exactly one exchange (query,
\* response) to the memory, however many tool passes the run made and
\* whether or not it produced an AI message.
C19_OneTurnPerCall ==
    Succeeded =>
        LET conversation_id == returned.ret.conversation_id
            memory == hierarchical_memories[conversation_id]
        IN  /\ active_conversations[conversation_id] =
                  TranscriptOf(returned.before, conversation_id)
                  \o << <<"user", returned.in.query>>,
                        <<"ai", returned.ret.response>> >>
            /\ memory.heap # <<>>
            /\ NewestExchange(memory) =
                  <<returned.in.query, returned.ret.response>>
            /\ conversation_id \in DOMAIN returned.before.hierarchical_memories
                  => memory.stats.total_exchanges =
                       returned.before.hierarchical_memories[conversation_id]
                           .stats.total_exchanges + 1

\* the memory of the conversation of the last search call
MemoryOfCall == hierarchical_memories[returned.ret.conversation_id]

\* C20: when the memory file of a conversation exists but cannot be
\* loaded, get_or_create_memory gives a fresh, empty HierarchicalMemory
\* (after the call it holds nothing but this call's exchange); when the
\* save at the end of search fails, search still returns "success" with
\* the answer, and the exchange stays in the memory of the process.
C20_StorageFailuresTolerated ==
    (returned.op = "search" /\ ~returned.raised) =>
        /\ "load" \in returned.failures =>
              /\ Len(MemoryOfCall.heap) = (IF Succeeded THEN 1 ELSE 0)
              /\ MemoryOfCall.stats.total_exchanges = Len(MemoryOfCall.heap)
              /\ MemoryOfCall.stats.retrievals = 1
              /\ MemoryOfCall.external_memory = <<>>
              /\ MemoryOfCall.attention_sinks = <<>>
        /\ "save" \in returned.failures =>
              /\ returned.ret.status = "success"
              /\ returned.in.llm = Answers =>
                    returned.ret.response = AnswerText
              /\ MemoryOfCall.heap # <<>>
              /\ NewestExchange(MemoryOfCall) =
                    <<returned.in.query, returned.ret.response>>
              /\ MemoryOfCall.main_memory # <<>>
              /\ MemoryOfCall.main_memory[Len(MemoryOfCall.main_memory)] =
                    Len(MemoryOfCall.heap)

\* a call whose memory file could not be loaded and whose save failed too
C20_Witness ==
    /\ Succeeded
    /\ returned.failures = {"load", "save"}
    /\ returned.ret.response = AnswerText
    /\ Len(MemoryOfCall.heap) = 1

-----------------------------------------------------------------------------
(* Paging, sinks and the profile (specification Spec) *)

\* the exchanges of a memory that started fresh, in the order in which
\* they were ingested
Ingested(m) == [x \in 1..Len(m.heap) |-> x]

\* those that were paged out, in page-out order
PagedOut(m) ==
    SelectSeq(Ingested(m), LAMBDA x : x \notin Range(m.main_memory))

ImportantPagedOut(m) ==
    SelectSeq(PagedOut(m), LAMBDA x : is_important(m.heap[x].user.content))

\* the last n elements of a list
LastN(list, n) ==
    IF Len(list) <= n THEN list
    ELSE SubSeq(list, Len(list) - n + 1, Len(list))

KeysKept == DOMAIN last.before.user_profile \subseteq DOMAIN mem.user_profile

\* a list without duplicate values
IsListWithoutDuplicates(entry) ==
    /\ entry.kind = "list"
    /\ \A i, j \in DOMAIN entry.items :
           entry.items[i] = entry.items[j] => i = j

ListKeysHoldLists ==
    \A key \in ListKeys \cap DOMAIN mem.user_profile :
        IsListWithoutDuplicates(mem.user_profile[key])

\* the patterns of a scalar key that match the message, in the order of the
\* loop
ScalarMatches(message, key) ==
    SelectSeq(education_patterns,
              LAMBDA pat : pat.key = key /\ Matches(Lower(message), pat))

\* a scalar key holds what the last matching pattern of the message of the
\* call captured
ScalarKeysHoldLatest ==
    \A key \in {"education_level", "name"} :
        LET hits == ScalarMatches(last.in[1], key)
        IN  hits # <<>> =>
               /\ key \in DOMAIN mem.user_profile
               /\ mem.user_profile[key] =
                      Str(Group1(Lower(last.in[1]), hits[Len(hits)]))

\* C26: after an add_exchange call no profile key that was set is missing;
\* field_of_study, learning_interests and interests hold lists without
\* duplicate values; education_level and name hold the value captured from
\* the most recent matching message.
C26_ProfileAccumulation ==
    /\ ListKeysHoldLists
    /\ last.op = "add" => (KeysKept /\ ScalarKeysHoldLatest)

\* the exchanges that the searches of the call scored: those of main_memory
\* and of the lists of the query's topics with a keyword of the query
ScoredExchanges(m, query) ==
    {m.main_memory[i] : i \in Relevant(m, query, m.main_memory)}
    \cup {TopicExchanges(m, query)[i] :
            i \in Relevant(m, query, TopicExchanges(m, query))}

\* access() was called on the page: the count grew and the time of the last
\* access is the time of the call
Accessed(before, after, now) ==
    /\ after.access_count > before.access_count
    /\ after.last_accessed = now

\* what no access() changes
SamePage(before, after) ==
    /\ after.content = before.content
    /\ after.created_at = before.created_at
    /\ after.access_count >= before.access_count

\* C27: a retrieve_relevant_context call adds 1 to stats.retrievals and
\* calls access() on both pages of every exchange that received a score;
\* main_memory, external_memory, attention_sinks, the content and created_at
\* of every page, user_profile and the other counters of stats are as
\* before, and no access_count is lower than before.
C27_RetrievalSideEffects ==
    last.op = "retrieve" =>
        LET b == last.before
        IN  /\ mem.stats = [b.stats EXCEPT !.retrievals = @ + 1]
            /\ mem.main_memory = b.main_memory
            /\ mem.external_memory = b.external_memory
            /\ mem.attention_sinks = b.attention_sinks
            /\ mem.user_profile = b.user_profile
            /\ DOMAIN mem.heap = DOMAIN b.heap
            /\ \A x \in DOMAIN b.heap :
                  /\ SamePage(b.heap[x].user, mem.heap[x].user)
                  /\ SamePage(b.heap[x].ai, mem.heap[x].ai)
            /\ \A x \in ScoredExchanges(b, last.query) :
                  /\ Accessed(b.heap[x].user, mem.heap[x].user, Now(clock - 1))
                  /\ Accessed(b.heap[x].ai, mem.heap[x].ai, Now(clock - 1))

C27_Witness ==
    /\ last.op = "retrieve"
    /\ \E x \in ScoredExchanges(last.before, last.query) :
          x \in Range(last.before.main_memory)
    /\ \E x \in ScoredExchanges(last.before, last.query) :
          x \notin Range(last.before.main_memory)
    /\ \E x \in DOMAIN mem.heap : x \notin ScoredExchanges(last.before, last.query)
    /\ last.before.attention_sinks # <<>>
    /\ last.before.stats.retrievals > 0

\* the exchanges of the section "Related Previous Exchanges" of the call
ExternalSection ==
    FirstN(retrieve_relevant_context(last.before, last.query,
                                     Now(clock - 1)).external,
           RetrieveLimit)

\* C30: in the result of a retrieve_relevant_context call a paged-out
\* exchange appears at most once in the section of external memory, and the
\* call marks its pages accessed at most once.
C30_NoDuplicateHits ==
    last.op = "retrieve" =>
        /\ \A x \in Range(ExternalSection) : Occurrences(ExternalSection, x) = 1
        /\ \A x \in DOMAIN last.before.heap \ Range(last.before.main_memory) :
              /\ mem.heap[x].user.access_count
                     <= last.before.heap[x].user.access_count + 1
              /\ mem.heap[x].ai.access_count
                     <= last.before.heap[x].ai.access_count + 1

-----------------------------------------------------------------------------
\* Feedback (specification SpecFeedback): search calls, store_feedback
\* calls and restarts of the process.

MaxFeedbackOps == 4

\* the dictionary store_feedback appends
FeedbackRecord(message_id, rating, feedback_text, now) ==
    [message_id |-> message_id, rating |-> rating,
     feedback_text |-> feedback_text, timestamp |-> isoformat(now)]

\* hasattr(memory, 'feedback'): the attribute is a field that only a memory
\* object which went through store_feedback has
HasFeedback(memory) == "feedback" \in DOMAIN memory

\* memory.feedback, the empty list standing for a missing attribute
FeedbackOf(memory) == IF HasFeedback(memory) THEN memory.feedback ELSE <<>>

\* memory.feedback = [] if missing, then memory.feedback.append(record)
AppendFeedback(memory, record) ==
    Update(memory, "feedback" :> Append(FeedbackOf(memory), record))

\* store_feedback: [S: the service afterwards, ret: the value returned,
\* record: the record appended]. The value of save_memory is not looked at.
store_feedback(S, conversation_id, message_id, rating, feedback_text, outcome, c) ==
    LET g == get_or_create_memory(S.hierarchical_memories, S.memory_store,
                                  conversation_id)
        record == FeedbackRecord(message_id, rating, feedback_text, Now(c))
        memories == [g.memories EXCEPT ![conversation_id] =
                         AppendFeedback(@, record)]
        saved_to == save_memory(memories, S.memory_store, conversation_id,
                                outcome, c)
    IN  [S |-> [S EXCEPT !.hierarchical_memories = memories,
                         !.memory_store = saved_to.store],
         ret |-> TRUE,
         record |-> record,
         saved |-> saved_to.ret]

FeedbackInputs ==
    [conversation_id : {<<"c1">>}, message_id : {"m1"}, rating : {1, 5},
     feedback_text : {<<"helpful">>}, save : {"ok", "open_fails"}]

StoreFeedback ==
    /\ svc_ops < MaxFeedbackOps
    /\ \E in \in FeedbackInputs :
       \E r \in {store_feedback(Service, in.conversation_id, in.message_id,
                                in.rating, in.feedback_text, in.save, clock)} :
              /\ Becomes(r.S)
              /\ returned' = [op |-> "feedback", in |-> in, ret |-> r.ret,
                              record |-> r.record, saved |-> r.saved,
                              before |-> Service]
    /\ svc_ops' = svc_ops + 1
    /\ clock' = clock + 1
    /\ UNCHANGED notSvcVars

NextFeedback == Turn \/ StoreFeedback \/ Restart

SpecFeedback == InitService /\ [][NextFeedback]_vars

\* the feedback a memory loaded from the file of the conversation holds
ReloadedFeedback(store, conversation_id) ==
    IF Filename(conversation_id) \in DOMAIN store
       /\ ~store[Filename(conversation_id)].corrupt
    THEN FeedbackOf(load_from_file(store[Filename(conversation_id)]))
    ELSE <<>>

\* C22: after store_feedback returned True (and its save wrote the file),
\* the feedback record is part of what the file of the conversation holds,
\* and a memory reloaded from that file contains the record.
C22_FeedbackPersisted ==
    (returned.op = "feedback" /\ returned.ret /\ returned.saved) =>
        LET f == memory_store[Filename(returned.in.conversation_id)]
        IN  /\ "feedback" \in DOMAIN f.data
            /\ returned.record \in
                   Range(ReloadedFeedback(memory_store,
                                          returned.in.conversation_id))

\* the external_memory lists that hold exchange x
ListsHolding(m, x) ==
    {t \in DOMAIN m.external_memory : x \in Range(m.external_memory[t].exchanges)}

\* C23: on a memory that started fresh, after N add_exchange calls
\* main_memory holds the last min(N, C) ingested exchanges in ingestion
\* order; the first max(0, N - C) exchanges were paged out once each, oldest
\* first, and each is in at least one external_memory list (at most once per
\* list); no exchange is both in main_memory and in an external_memory list.
C23_OldestFirstPaging ==
    last.fresh =>
        LET N == Len(mem.heap)
            C == mem.config.main_memory_capacity
        IN  /\ N = last.adds
            /\ mem.main_memory = LastN(Ingested(mem), C)
            /\ mem.stats.page_outs = Max(0, N - C)
            /\ PagedOutNow => PagedExchange = N - C
            /\ \A x \in 1..Max(0, N - C) :
                  /\ ListsHolding(mem, x) # {}
                  /\ \A t \in ListsHolding(mem, x) :
                        Occurrences(mem.external_memory[t].exchanges, x) = 1
            /\ \A x \in Range(mem.main_memory) : ListsHolding(mem, x) = {}

C23_Witness ==
    /\ last.fresh
    /\ PagedOutNow
    /\ Len(mem.heap) >= mem.config.main_memory_capacity + 2
    /\ Cardinality(ListsHolding(mem, PagedExchange)) >= 2
    /\ Len(mem.main_memory) = mem.config.main_memory_capacity

-----------------------------------------------------------------------------
\* Re-routing and the end of a run (specification SpecGraph)

RECURSIVE RouterChoices(_, _, _)
\* the tool_choice values that the passes through tool_router return during
\* the run from r on, in the order of the passes
RouterChoices(r, llm, now) ==
    IF r.node = "END" \/ r.steps >= RecursionLimit THEN <<>>
    ELSE (IF r.node = "tool_router"
          THEN <<tool_router(r.state).tool_choice>> ELSE <<>>)
         \o RouterChoices(GraphStep(r, llm, now), llm, now)

\* two passes that follow each other return different values
ChoiceChanges(choices) ==
    \E i \in 1..(Len(choices) - 1) : choices[i] # choices[i + 1]

\* C24: there is a graph run in which the critic sets need_additional_tools
\* and the pass through tool_router that follows returns a tool_choice
\* different from the one of the previous pass of the run.
C24_ReroutingChangesTool ==
    \E messages \in GraphMessages, context \in GraphContexts,
       memory \in GraphMemories, llm \in GraphLlms :
        ChoiceChanges(RouterChoices(
            GraphStart([messages |-> messages, context |-> context,
                        memory |-> memory, reasoning |-> <<>>], <<>>),
            llm, Now(clock)))

\* a pass through tool_router that followed a critic asking for more tools
Rerouted ==
    /\ graph_run.from = "tool_router"
    /\ graph_run.decision
    /\ graph_run.steps > 1

\* every pass of a run returns what a pass on the input of the run returns
SameChoiceEveryPass ==
    graph_run.from = "tool_router" =>
        /\ tool_router(graph_run.before).tool_choice
               = tool_router(graph_run.events[1]).tool_choice
        /\ tool_router(graph_run.before).tool_choice = NoTool

\* the runs of SpecGraph in which a node that can run does run
SpecGraphLive == SpecGraph /\ WF_vars(NextGraph)

\* C25: the critic's decision is what bounds the tool loop: every run in
\* which the critic answers false reaches the end of the graph.
C25_CriticBoundsLoop ==
    (~run_llm.critic) => <>(graph_run.node = "END")

\* a run reaches the end or is ended by the step limit of the graph library
RunStops == <>(graph_run.node = "END" \/ graph_run.raised)

-----------------------------------------------------------------------------
(* search calls running on threads (specifications SpecRace and            *)
(* SpecSweep).  search takes no lock: a call is the sequence of its        *)
(* statements, and the statements of calls on different threads            *)
(* interleave.  `shared` holds the module-level dictionaries of service.py,*)
(* the agent's URL tracker and the files of MEMORY_DIR; `objects` holds    *)
(* the HierarchicalMemory objects created so far, hierarchical_memories    *)
(* and the local variable `memory` of a call referring to them by index.   *)

MaxThreadCalls == 2
MaxSweepOps == 4

Threads == {1, 2}

NoThread ==
    [pc |-> "idle", n |-> 0, query |-> <<>>, conversation_id |-> <<>>,
     context |-> NoDict, memory |-> 0, relevant_context |-> <<>>,
     memory_summary |-> NoDict, ai_responses |-> <<>>, reasoning |-> <<>>,
     response |-> <<>>, ret |-> NoDict]

\* the query of the n-th call issued
QueryOf(n) == CASE n = 1 -> MsgMath [] n = 2 -> MsgArt [] OTHER -> MsgExperiment

\* the dictionary hierarchical_memories with the objects it refers to
Deref(S, O) ==
    [c \in DOMAIN S.hierarchical_memories |-> O[S.hierarchical_memories[c]]]

\* a step of a call: the thread, the objects and the shared state afterwards
Stepped(T, O, S) == [T |-> T, O |-> O, S |-> S]

\* the except branch of search
search_fails(T, O, S) ==
    Stepped([T EXCEPT !.pc = "done",
                      !.ret = ErrorResult(T.conversation_id, Uuid(S.uuids + 1))],
            O, [S EXCEPT !.uuids = @ + 1])

\* search up to the context update: the call of thread T begins
search_begin(S, n, conversation_id) ==
    Stepped([NoThread EXCEPT
               !.pc = "check", !.n = n, !.query = QueryOf(n),
               !.conversation_id = conversation_id,
               !.context = "conversation_id" :> Str(conversation_id)],
            <<>>,
            [S EXCEPT !.agent_url_tracker = clear(@, conversation_id)])

\* get_or_create_memory, the test `conversation_id in hierarchical_memories`
memory_check(T, O, S) ==
    IF T.conversation_id \in DOMAIN S.hierarchical_memories
    THEN Stepped([T EXCEPT !.pc = "retrieve",
                           !.memory = S.hierarchical_memories[T.conversation_id]],
                 O, S)
    ELSE Stepped([T EXCEPT !.pc = "create"], O, S)

\* get_or_create_memory after the test failed: a new object, loaded from
\* the file if there is one, is stored in the dictionary and returned
memory_create(T, O, S) ==
    LET g == get_or_create_memory(<<>>, S.memory_store, T.conversation_id)
    IN  Stepped([T EXCEPT !.pc = "retrieve", !.memory = Len(O) + 1],
                Append(O, g.memories[T.conversation_id]),
                [S EXCEPT !.hierarchical_memories =
                              Update(@, T.conversation_id :> Len(O) + 1)])

\* memory.retrieve_relevant_context(query); memory.get_memory_summary()
search_retrieve(T, O, S, now) ==
    LET r == retrieve_relevant_context(O[T.memory], T.query, now)
        summary == get_memory_summary(r.mem)
    IN  IF summary.raised
        THEN Stepped([T EXCEPT !.pc = "done", !.ret = "raised" :> TRUE],
                     [O EXCEPT ![T.memory] = r.mem], S)
        ELSE Stepped([T EXCEPT !.pc = "history",
                               !.relevant_context = r.ret,
                               !.memory_summary = summary.ret],
                     [O EXCEPT ![T.memory] = r.mem], S)

\* the user's turn put in front of the list instead of at its end
prepend_user_turn(active, conversation_id, query) ==
    Update(active,
           conversation_id :>
               <<<<"user", query>>>> \o
               (IF conversation_id \in DOMAIN active
                THEN active[conversation_id] ELSE <<>>))

\* active_conversations[conversation_id].append(("user", query)), after the
\* list was created if the dictionary had none
append_user_turn(active, conversation_id, query) ==
    Update(active,
           conversation_id :>
               Append(IF conversation_id \in DOMAIN active
                      THEN active[conversation_id] ELSE <<>>,
                      <<"user", query>>))

search_append_user(T, O, S) ==
    Stepped([T EXCEPT !.pc = "stream"], O,
            [S EXCEPT !.active_conversations =
                          append_user_turn(@, T.conversation_id, T.query)])

\* the state is built from active_conversations[conversation_id], a
\* KeyError if the entry is gone, and the graph is run
search_stream(T, O, S, llm, now) ==
    IF T.conversation_id \notin DOMAIN S.active_conversations
    THEN search_fails(T, O, S)
    ELSE LET history == S.active_conversations[T.conversation_id]
             r == GraphRun([messages |-> [i \in DOMAIN history |->
                                              Pair(history[i])],
                            context |-> T.context,
                            memory |-> T.relevant_context,
                            memory_summary |-> T.memory_summary,
                            reasoning |-> <<>>],
                           S.agent_url_tracker, llm, now)
         IN  IF r.raised
             THEN search_fails(T, O, [S EXCEPT !.agent_url_tracker =
                                                   r.conversations])
             ELSE Stepped([T EXCEPT !.pc = "events",
                                    !.ai_responses = AiResponses(r.events),
                                    !.reasoning = ReasoningSteps(r.events)],
                          O, [S EXCEPT !.agent_url_tracker = r.conversations])

\* the loop over the events: every response is appended to
\* active_conversations[conversation_id], a KeyError if the entry is gone
search_collect(T, O, S) ==
    IF T.ai_responses # <<>>
       /\ T.conversation_id \notin DOMAIN S.active_conversations
    THEN search_fails(T, O, S)
    ELSE Stepped(
             [T EXCEPT !.pc = "add",
                       !.response = IF T.ai_responses # <<>>
                                    THEN T.ai_responses[Len(T.ai_responses)]
                                    ELSE FallbackText],
             O,
             IF T.ai_responses = <<>> THEN S
             ELSE [S EXCEPT !.active_conversations[T.conversation_id] =
                       @ \o [i \in DOMAIN T.ai_responses |->
                                <<"ai", T.ai_responses[i]>>]])

\* memory.add_exchange(query, response, context) on the object the call
\* holds
search_add(T, O, S, now) ==
    LET a == add_exchange(O[T.memory], T.query, T.response, T.context, now)
    IN  IF a.raised
        THEN search_fails(T, [O EXCEPT ![T.memory] = a.mem], S)
        ELSE Stepped([T EXCEPT !.pc = "save"],
                     [O EXCEPT ![T.memory] = a.mem], S)

\* self.save_memory(conversation_id), which writes the object that
\* hierarchical_memories holds, and the return of the result
search_return(T, O, S, c) ==
    LET w == save_memory(Deref(S, O), S.memory_store, T.conversation_id,
                         "ok", c)
    IN  Stepped([T EXCEPT
                   !.pc = "done",
                   !.ret = [status |-> "success",
                            response |-> T.response,
                            conversation_id |-> T.conversation_id,
                            message_id |-> Uuid(S.uuids + 1),
                            reasoning |-> T.reasoning,
                            searched_websites |->
                                get_urls(S.agent_url_tracker,
                                         T.conversation_id)]],
                O,
                [S EXCEPT !.memory_store = w.store, !.uuids = @ + 1])

\* a process whose service has its agent and its graph, before any call
InitThreads ==
    /\ clock = 1
    /\ MemIdle
    /\ UrlIdle
    /\ SvcIdle
    /\ RtrIdle
    /\ threads = [t \in Threads |-> NoThread]
    /\ objects = <<>>
    /\ shared = [hierarchical_memories |-> <<>>,
                 active_conversations |-> <<>>,
                 agent_url_tracker |-> <<>>,
                 memory_store |-> <<>>,
                 uuids |-> 0]
    /\ issued = [n |-> 0, overlapped |-> FALSE]

\* a call is in progress on thread t
Busy(t) == threads[t].pc \notin {"idle", "done"}

\* thread t took the step r
Takes(t, r) ==
    /\ threads' = [threads EXCEPT ![t] = r.T]
    /\ objects' = r.O
    /\ shared' = r.S

\* a caller issues search(query, "c1") on one of the threads ts, up to
\* `bound` operations having been issued
BeginOn(ts, bound) ==
    /\ issued.n < bound
    /\ \E t \in ts :
          /\ ~Busy(t)
          /\ \E r \in {search_begin(shared, issued.n + 1, <<"c1">>)} :
                /\ threads' = [threads EXCEPT ![t] = r.T]
                /\ shared' = r.S
          /\ issued' = [n |-> issued.n + 1,
                        overlapped |-> issued.overlapped
                                       \/ \E u \in Threads \ {t} : Busy(u)]
    /\ clock' = clock + 1
    /\ UNCHANGED <<objects, notThrVars>>

Begin == BeginOn(Threads, MaxThreadCalls)

At(t, pc) == threads[t].pc = pc

CheckMemory ==
    /\ \E t \in Threads :
          /\ At(t, "check")
          /\ \E r \in {memory_check(threads[t], objects, shared)} : Takes(t, r)
    /\ UNCHANGED <<clock, issued, notThrVars>>

CreateMemory ==
    /\ \E t \in Threads :
          /\ At(t, "create")
          /\ \E r \in {memory_create(threads[t], objects, shared)} : Takes(t, r)
    /\ UNCHANGED <<clock, issued, notThrVars>>

RetrieveContext ==
    /\ \E t \in Threads :
          /\ At(t, "retrieve")
          /\ \E r \in {search_retrieve(threads[t], objects, shared, Now(clock))} :
                Takes(t, r)
    /\ UNCHANGED <<clock, issued, notThrVars>>

AppendUserTurn ==
    /\ \E t \in Threads :
          /\ At(t, "history")
          /\ \E r \in {search_append_user(threads[t], objects, shared)} :
                Takes(t, r)
    /\ UNCHANGED <<clock, issued, notThrVars>>

StreamGraph ==
    /\ \E t \in Threads :
          /\ At(t, "stream")
          /\ \E r \in {search_stream(threads[t], objects, shared, Answers,
                                     Now(clock))} : Takes(t, r)
    /\ UNCHANGED <<clock, issued, notThrVars>>

CollectEvents ==
    /\ \E t \in Threads :
          /\ At(t, "events")
          /\ \E r \in {search_collect(threads[t], objects, shared)} : Takes(t, r)
    /\ UNCHANGED <<clock, issued, notThrVars>>

AddToMemory ==
    /\ \E t \in Threads :
          /\ At(t, "add")
          /\ \E r \in {search_add(threads[t], objects, shared, Now(clock))} :
                Takes(t, r)
    /\ UNCHANGED <<clock, issued, notThrVars>>

SaveAndReturn ==
    /\ \E t \in Threads :
          /\ At(t, "save")
          /\ \E r \in {search_return(threads[t], objects, shared, clock)} :
                Takes(t, r)
    /\ UNCHANGED <<clock, issued, notThrVars>>

\* a statement of a call in progress
CallStep ==
    \/ CheckMemory \/ CreateMemory \/ RetrieveContext \/ AppendUserTurn
    \/ StreamGraph \/ CollectEvents \/ AddToMemory \/ SaveAndReturn

NextRace == Begin \/ CallStep

SpecRace == InitThreads /\ [][NextRace]_vars

\* no call is in progress
Quiet == \A t \in Threads : ~Busy(t)

\* the transcript of conversation c1
Transcript ==
    IF <<"c1">> \in DOMAIN shared.active_conversations
    THEN shared.active_conversations[<<"c1">>] ELSE <<>>

\* the user messages of the exchanges that the object holds, in the order
\* in which they were added
UserMessages(m) == [x \in DOMAIN m.heap |-> m.heap[x].user.content]

\* the transcript holds two user turns one after the other
TwoUserTurnsInARow ==
    \E i \in 1..(Len(Transcript) - 1) :
        Transcript[i][1] = "user" /\ Transcript[i + 1][1] = "user"

\* a call returned success, and the memory of the conversation does not
\* hold its exchange
ExchangeLost ==
    \E t \in Threads :
        /\ threads[t].pc = "done"
        /\ "status" \in DOMAIN threads[t].ret
        /\ threads[t].ret.status = "success"
        /\ threads[t].query \notin
               Range(UserMessages(Deref(shared, objects)[<<"c1">>]))

\* C28: search takes no lock.  When the calls on a conversation are
\* serialised (no call is issued while another is in progress), the turns
\* are processed in issue order: the transcript holds, call after call, the
\* user's turn and the reply, one memory object serves every call and holds
\* the exchanges in issue order, and the file holds that memory.
C28_SerialisedCallsInOrder ==
    (~issued.overlapped /\ Quiet /\ issued.n > 0) =>
        LET m == Deref(shared, objects)[<<"c1">>]
        IN  /\ Len(Transcript) = 2 * issued.n
            /\ \A i \in 1..issued.n :
                  /\ Transcript[2 * i - 1] = <<"user", QueryOf(i)>>
                  /\ Transcript[2 * i][1] = "ai"
            /\ Len(objects) = 1
            /\ UserMessages(m) = [i \in 1..issued.n |-> QueryOf(i)]
            /\ shared.memory_store[Filename(<<"c1">>)].data = memory_data(m)

\* two calls whose statements interleaved: the transcript holds their user
\* turns one after the other, each call created a memory object of its
\* own, and the exchange added to the overwritten object is lost
C28_Witness ==
    /\ issued.overlapped
    /\ Quiet
    /\ \A t \in Threads : threads[t].pc = "done"
    /\ TwoUserTurnsInARow
    /\ Len(objects) = 2
    /\ ExchangeLost

\* a URL is in the agent's tracker
UrlTracked ==
    \E c \in DOMAIN shared.agent_url_tracker :
        get_urls(shared.agent_url_tracker, c) # <<>>

\* the calls of SpecSweep are issued on one thread, one after the other
BeginFirst == BeginOn({1}, MaxSweepOps)

\* nothing calls the service for more than max_age_hours
HoursPass ==
    /\ issued.n < MaxSweepOps
    /\ Quiet
    /\ clock' = clock + HoursLeftAlone
    /\ issued' = [issued EXCEPT !.n = @ + 1]
    /\ UNCHANGED <<threads, objects, shared, notThrVars>>

\* run_cleanup on the background thread: cleanup_task calls
\* cleanup_old_memories(max_age_hours=24) whatever the calls in progress
Sweep ==
    /\ issued.n < MaxSweepOps
    /\ \E listing \in Listings(DOMAIN shared.memory_store) :
       \E r \in {cleanup_old_memories(shared, DefaultMaxAgeHours, listing,
                                       NoFailure, clock)} :
              shared' = r.S
    /\ issued' = [issued EXCEPT !.n = @ + 1]
    /\ clock' = clock + 1
    /\ UNCHANGED <<threads, objects, notThrVars>>

NextSweep == BeginFirst \/ CallStep \/ HoursPass \/ Sweep

SpecSweep == InitThreads /\ [][NextSweep]_vars

\* the user messages of the exchanges that the file of the conversation
\* holds in main_memory
FiledMessages(store, conversation_id) ==
    IF Filename(conversation_id) \in DOMAIN store
    THEN LET data == store[Filename(conversation_id)].data
         IN  {data.main_memory[i].user.content : i \in DOMAIN data.main_memory}
    ELSE {}

\* the exchange of the call is in the file of the conversation and in the
\* memory that the next call on the conversation finds
Persisted(T, O, S) ==
    /\ T.query \in FiledMessages(S.memory_store, T.conversation_id)
    /\ T.conversation_id \in DOMAIN S.hierarchical_memories
    /\ T.query \in Range(UserMessages(Deref(S, O)[T.conversation_id]))

\* C29: whatever the cleanup thread does while a search call is between its
\* memory load and its save, when the call returns its result the exchange
\* of the call is in the file of the conversation and in the memory that
\* the next call on the conversation uses.
C29_InFlightTurnPersisted ==
    [][\A t \in Threads :
          (threads[t].pc = "save" /\ threads'[t].pc = "done") =>
              Persisted(threads'[t], objects', shared')]_vars

\* without the cleanup thread
SpecNoSweep == InitThreads /\ [][BeginFirst \/ CallStep \/ HoursPass]_vars

=============================================================================
